---- MODULE Spec2Model ----
(***************************************************************************)
(* State-machine model of the session-multiplexing HTTP gateway            *)
(* createMcpHttpServer (src/src/http.ts).                                  *)
(*                                                                         *)
(* The gateway's code is translated handler by handler; every `await` of   *)
(* the source is a suspension point at which other handlers and callbacks  *)
(* interleave.  The StreamableHTTPServerTransport ("channel") and the      *)
(* McpServer ("engine") are external collaborators: their behaviour is     *)
(* the environment, which fires the two callbacks the gateway registers    *)
(* (onsessioninitialized, onclose) and settles the promises the gateway    *)
(* awaits.                                                                 *)
(***************************************************************************)
EXTENDS Integers, Sequences, FiniteSets, TLC

\* ------------------------------------------------------------------ bounds

\* Number of HTTP exchanges in progress or just answered at one time.  An
\* answered exchange has no further effect; its slot is taken by the next request.
NumReq == 2

\* Number of requests a behaviour contains.
MaxRequests == 2

\* Number of channels (sessions) created in a behaviour.
MaxChannels == 2

\* Number of times stop() is called in a behaviour.
MaxStops == 2

\* ------------------------------------------------------------- value model

Reqs == 1..NumReq

Chans == 1..MaxChannels

\* An optional value: <<>> is `undefined`, <<v>> is the value v.
Undefined == <<>>

Some(v) == <<v>>

\* JavaScript truthiness of an optional string: undefined and "" are falsy.
Truthy(o) == o # Undefined /\ o[1] # ""

\* sessionIdGenerator: () => randomUUID().  The generator is called once per
\* channel, when the channel becomes established; values of distinct calls are
\* distinct, so the call made for channel c is represented by the c-th name.
UuidNames == <<"s1", "s2", "s3", "s4", "s5", "s6">>

randomUUID(c) == UuidNames[c]

\* Values the mcp-session-id header of a request takes: absent, the empty
\* string, the id of the first channel created (registered or not at the time
\* of the request), and an id the generator never produces.  Channels are
\* interchangeable, so requests address the first one.
HeaderValues == {Undefined, Some(""), Some(randomUUID(1)), Some("stale")}

Methods == {"POST", "GET", "DELETE", "PUT"}

\* options.path (default "/mcp") and a request path that differs from it.
path == "/mcp"

Paths == {path, "/other"}

\* ---------------------------------------------------------- body collector

\* Request payloads as sequences of characters: the empty payload, a valid JSON
\* text and a text JSON.parse rejects.
Bodies == { <<>>, <<"[", "1", "]">>, <<"[", "1">> }

\* JSON values: the number 1, strings and arrays, each with its type so that
\* values of different types are told apart.
JNum == [type |-> "number", items |-> <<>>]

JStr(chars) == [type |-> "string", items |-> chars]

JArr(items) == [type |-> "array", items |-> items]

\* The rest of a string literal after its opening quote: the characters up to
\* the closing quote.  Returns [ok, chars, rest].
RECURSIVE ParseString(_)
ParseString(s) ==
    IF s = <<>> THEN [ok |-> FALSE, chars |-> <<>>, rest |-> <<>>]
    ELSE IF Head(s) = "\"" THEN [ok |-> TRUE, chars |-> <<>>, rest |-> Tail(s)]
    ELSE LET t == ParseString(Tail(s)) IN
         IF t.ok THEN [ok |-> TRUE, chars |-> <<Head(s)>> \o t.chars, rest |-> t.rest]
         ELSE [ok |-> FALSE, chars |-> <<>>, rest |-> <<>>]

\* JSON.parse on the fragment of JSON used here:
\* V ::= "1" | string | "[" "]" | "[" V "]".
\* Returns [ok |-> TRUE, value |-> v, rest |-> remaining characters] or ok = FALSE.
RECURSIVE ParseValue(_)
ParseValue(s) ==
    IF s = <<>> THEN [ok |-> FALSE, value |-> <<>>, rest |-> <<>>]
    ELSE IF Head(s) = "1" THEN [ok |-> TRUE, value |-> JNum, rest |-> Tail(s)]
    ELSE IF Head(s) = "\"" THEN
        LET t == ParseString(Tail(s)) IN
        IF t.ok THEN [ok |-> TRUE, value |-> JStr(t.chars), rest |-> t.rest]
        ELSE [ok |-> FALSE, value |-> <<>>, rest |-> <<>>]
    ELSE IF Head(s) = "[" THEN
        IF Tail(s) # <<>> /\ Head(Tail(s)) = "]"
        THEN [ok |-> TRUE, value |-> JArr(<<>>), rest |-> Tail(Tail(s))]
        ELSE LET inner == ParseValue(Tail(s)) IN
             IF inner.ok /\ inner.rest # <<>> /\ Head(inner.rest) = "]"
             THEN [ok |-> TRUE, value |-> JArr(<<inner.value>>), rest |-> Tail(inner.rest)]
             ELSE [ok |-> FALSE, value |-> <<>>, rest |-> <<>>]
    ELSE [ok |-> FALSE, value |-> <<>>, rest |-> <<>>]

\* JSON.parse(body): succeeds when the whole text is one value.
JSONparse(s) ==
    LET r == ParseValue(s) IN
    IF r.ok /\ r.rest = <<>> THEN [ok |-> TRUE, value |-> r.value]
    ELSE [ok |-> FALSE, value |-> <<>>]

\* Mutant: a text JSON.parse rejects is passed on as "no payload".
parseBodyLenient(body) ==
    IF body = <<>> THEN [ok |-> TRUE, value |-> Undefined]
    ELSE LET p == JSONparse(body) IN
         IF p.ok THEN [ok |-> TRUE, value |-> Some(p.value)]
         ELSE [ok |-> TRUE, value |-> Undefined]

\* Mutant: the empty text is handed to JSON.parse like any other.
parseBodyStrict(body) ==
    LET p == JSONparse(body) IN
    IF p.ok THEN [ok |-> TRUE, value |-> Some(p.value)]
    ELSE [ok |-> FALSE, value |-> Undefined]

\* parseBody's "end" handler: resolve(body ? JSON.parse(body) : undefined), or
\* reject when JSON.parse throws.  The result is [ok, value] with value an
\* optional parsed message.
parseBody(body) ==
    IF body = <<>> THEN [ok |-> TRUE, value |-> Undefined]
    ELSE LET p == JSONparse(body) IN
         IF p.ok THEN [ok |-> TRUE, value |-> Some(p.value)]
         ELSE [ok |-> FALSE, value |-> Undefined]

\* ------------------------------------------------- the body, chunk by chunk

\* The messages clients send, as JSON values.  "U+00E9" is a character whose
\* UTF-8 encoding has two bytes.
Messages ==
    << JNum, JArr(<<>>), JArr(<<JNum>>), JArr(<<JArr(<<JNum>>)>>), JStr(<<"1">>),
       JStr(<<"U+00E9">>), JStr(<<"U+00E9", "U+00E9">>), JArr(<<JStr(<<"U+00E9">>)>>) >>

\* JSON.stringify(v), the text the client serializes a message to.
RECURSIVE JSONstringify(_)
JSONstringify(v) ==
    IF v.type = "number" THEN <<"1">>
    ELSE IF v.type = "string" THEN <<"\"">> \o v.items \o <<"\"">>
    ELSE IF v.items = <<>> THEN <<"[", "]">>
    ELSE <<"[">> \o JSONstringify(v.items[1]) \o <<"]">>

\* The UTF-8 bytes of a text, as they travel in the request: an ASCII character
\* is one byte (written like the character), U+00E9 is the bytes C3 A9.
RECURSIVE Utf8Encode(_)
Utf8Encode(text) ==
    IF text = <<>> THEN <<>>
    ELSE IF Head(text) = "U+00E9" THEN <<"C3", "A9">> \o Utf8Encode(Tail(text))
    ELSE <<Head(text)>> \o Utf8Encode(Tail(text))

\* `body += chunk` with chunk a Buffer (the stream has no encoding set): the
\* chunk is converted by chunk.toString(), which decodes the chunk's bytes as
\* UTF-8 on their own; a byte sequence that is incomplete or out of place
\* within the chunk becomes the replacement character U+FFFD.
RECURSIVE BufferToString(_)
BufferToString(chunk) ==
    IF chunk = <<>> THEN <<>>
    ELSE IF Head(chunk) = "C3" THEN
        IF Tail(chunk) # <<>> /\ Head(Tail(chunk)) = "A9"
        THEN <<"U+00E9">> \o BufferToString(Tail(Tail(chunk)))
        ELSE <<"U+FFFD">> \o BufferToString(Tail(chunk))
    ELSE IF Head(chunk) = "A9" THEN <<"U+FFFD">> \o BufferToString(Tail(chunk))
    ELSE <<Head(chunk)>> \o BufferToString(Tail(chunk))

\* Every way the bytes of a request body arrive as a sequence of non-empty chunks.
RECURSIVE Chunkings(_)
Chunkings(bytes) ==
    IF bytes = <<>> THEN {<<>>}
    ELSE UNION { { <<SubSeq(bytes, 1, k)>> \o rest :
                     rest \in Chunkings(SubSeq(bytes, k + 1, Len(bytes))) } :
                 k \in 1..Len(bytes) }

\* ------------------------------------------------------------ the registry

\* transports = new Map<string, Transport>(): a JavaScript Map keeps insertion
\* order and its iterators are live.  It is a sequence of entries; a deleted
\* entry stays as a tombstone (live = FALSE) so that an iterator's position is
\* stable, as in the Map iteration protocol.
MapHas(m, k) == \E i \in DOMAIN m : m[i].live /\ m[i].key = k

MapIndex(m, k) == CHOOSE i \in DOMAIN m : m[i].live /\ m[i].key = k

\* transports.get(k): the value, or 0 for `undefined` when k is no key.
MapGet(m, k) == IF MapHas(m, k) THEN m[MapIndex(m, k)].val ELSE 0

MapSet(m, k, v) ==
    IF MapHas(m, k) THEN [m EXCEPT ![MapIndex(m, k)].val = v]
    ELSE Append(m, [key |-> k, val |-> v, live |-> TRUE])

MapDelete(m, k) ==
    [i \in DOMAIN m |-> IF m[i].live /\ m[i].key = k
                        THEN [m[i] EXCEPT !.live = FALSE] ELSE m[i]]

MapKeys(m) == {m[i].key : i \in {j \in DOMAIN m : m[j].live}}

MapValues(m) == {m[i].val : i \in {j \in DOMAIN m : m[j].live}}

\* Iterator step of transports.values(): the first live entry after position p,
\* or 0 when the iteration is done.
MapNext(m, p) ==
    LET later == {i \in DOMAIN m : i > p /\ m[i].live} IN
    IF later = {} THEN 0 ELSE CHOOSE i \in later : \A j \in later : i <= j

\* -------------------------------------------------------------------- state

VARIABLES
    listener,     \* httpServer: "created", "listening", "failed" (listen() failed),
                  \* "closing" (close() called), "closed"
    transports,   \* the registry: Map from session id to channel
    req,          \* the exchanges: position in the handler, request inputs, locals, response
    chan,         \* the channels created so far: engine, sessionId, closure state
    engines,      \* number of calls of createMcpServer (engine instances created)
    stopPc,       \* position of stop(): "idle", "awaitClose", "done", "failed" (promise rejected)
    stopPos,      \* position of stop()'s iterator over transports.values()
    stopCur,      \* the channel whose close() stop() is awaiting (0: none)
    stopCalls,    \* number of calls of stop() so far
    stopSnap,     \* history: the channels registered when stop() was called
    started,      \* the promise of start(): "none" (not called), "pending", "resolved"
                  \* (the code has no path that rejects it)
    stopInvoked,  \* history: the channels on which this call of stop() invoked close()
    accepted,     \* history: number of requests the listener has accepted
    call          \* the invocation of a registered tool or resource handler by an engine

vars == <<listener, transports, req, chan, engines,
          stopPc, stopPos, stopCur, stopCalls, stopSnap, started,
          stopInvoked, accepted, call>>

\* ---------------------------------------------------------------- responses

\* The JSON-RPC error envelope written for 400, 405 and 500.
Envelope(code, message) ==
    [jsonrpc |-> "2.0", error |-> [code |-> code, message |-> message], id |-> "null"]

InvalidSession == Envelope(-32000, "Invalid or missing session ID")

\* Mutant: the 405 envelope carries the JSON-RPC "method not found" code.
MethodNotFoundCode == Envelope(-32601, "Method not allowed")

MethodNotAllowed == Envelope(-32000, "Method not allowed")

InternalError == Envelope(-32603, "Internal server error")

\* The body of the 404 response.
NotFound == [error |-> "Not found"]

\* What the channel writes is the engine's business.
EnginePayload == [engine |-> "payload"]

NoData == [nothing |-> "written"]

\* sendJson(res, status, data): the gateway writes status, headers and body.
sendJson(rec, status, data) ==
    [rec EXCEPT !.pc = "done", !.status = status, !.data = data, !.by = "gateway"]

\* --------------------------------------------------------------------- init

\* No handler of a tool or resource has been invoked.
NoCall == [pc |-> "idle"]

NoRequest ==
    [pc |-> "new", method |-> "GET", path |-> path, sid |-> Undefined, body |-> <<>>,
     message |-> Undefined, wire |-> <<>>,
     sidClosed |-> FALSE, outcome |-> "NONE", transport |-> 0, parsed |-> Undefined,
     forwarded |-> FALSE,
     status |-> 0, data |-> NoData, by |-> "none", caught |-> FALSE]

NoChannel ==
    [state |-> "none", engine |-> 0, sessionId |-> Undefined, connected |-> FALSE,
     closedId |-> Undefined]

Init ==
    /\ listener = "created"
    /\ transports = <<>>
    /\ req = [r \in Reqs |-> NoRequest]
    /\ chan = [c \in Chans |-> NoChannel]
    /\ engines = 0
    /\ stopPc = "idle"
    /\ stopPos = 0
    /\ stopCur = 0
    /\ stopCalls = 0
    /\ stopSnap = {}
    /\ started = "none"
    /\ stopInvoked = {}
    /\ accepted = 0
    /\ call = NoCall

\* ---------------------------------------------------------------- callbacks

\* Mutant: `transport` is one variable shared by all exchanges, so the callback
\* stores whichever channel was created last.
onsessioninitializedShared(m, c, id) == MapSet(m, id, engines)

\* onsessioninitialized: (id) => { transports.set(id, transport) }; `transport`
\* is the variable of the exchange that created the channel, i.e. channel c.
onsessioninitialized(m, c, id) == MapSet(m, id, c)

\* Mutant: onclose forgets to delete the entry.
oncloseKeepsEntry(m, c) == m

\* Mutant: onclose empties the registry (transports.clear()).
oncloseClears(m, c) == [i \in DOMAIN m |-> [m[i] EXCEPT !.live = FALSE]]

\* Mutant: onclose deletes the session registered last, whichever channel closes.
oncloseLastSession(m, c) ==
    LET liveEntries == {i \in DOMAIN m : m[i].live} IN
    IF liveEntries = {} THEN m
    ELSE LET last == CHOOSE i \in liveEntries : \A j \in liveEntries : j <= i
         IN  [m EXCEPT ![last].live = FALSE]

\* transport.onclose = () => { if (transport.sessionId) transports.delete(transport.sessionId) }
onclose(m, c) ==
    IF Truthy(chan[c].sessionId) THEN MapDelete(m, chan[c].sessionId[1]) ELSE m

\* ------------------------------------------------------------ the listener

\* start(): httpServer.listen(port, callback); the promise resolves in the
\* callback, once the server is listening.
Start ==
    /\ listener = "created"
    /\ started = "none"
    /\ listener' = "listening"
    /\ started' = "resolved"
    /\ UNCHANGED <<transports, req, chan, engines,
                   stopPc, stopPos, stopCur, stopCalls, stopSnap,
                   stopInvoked, accepted, call>>

\* start() when the port is unavailable: listen() fails and httpServer emits
\* "error".  start() registers no "error" listener and its promise has no reject
\* path, so the event is an uncaught exception and the promise stays pending.
StartFails ==
    /\ listener = "created"
    /\ started = "none"
    /\ listener' = "failed"
    /\ started' = "pending"
    /\ UNCHANGED <<transports, req, chan, engines,
                   stopPc, stopPos, stopCur, stopCalls, stopSnap,
                   stopInvoked, accepted, call>>

\* httpServer.close(): a listening server stops accepting connections and
\* finishes closing later, when its connections have ended; on a server that is
\* not listening the call changes nothing.
httpServerClose(l) == IF l = "listening" THEN "closing" ELSE l

\* The server's "close" event: every connection has ended.
ListenerClosed ==
    /\ listener = "closing"
    /\ \A r \in Reqs : req[r].pc \in {"new", "done"}
    /\ listener' = "closed"
    /\ UNCHANGED <<transports, req, chan, engines,
                   stopPc, stopPos, stopCur, stopCalls, stopSnap, started,
                   stopInvoked, accepted, call>>

\* ---------------------------------------------------------- the dispatcher

\* Mutant: the lookup tests the header for presence only (sessionId !== undefined),
\* so the empty string is looked up like any id.
RecognizedIfPresent(m, sid) == sid # Undefined /\ MapHas(m, sid[1])

\* sessionId && transports.has(sessionId)
Recognized(m, sid) == Truthy(sid) /\ MapHas(m, sid[1])

\* Mutant: the catch block answers 500 without testing res.headersSent.
CatchAlways(rec) == [sendJson(rec, 500, InternalError) EXCEPT !.caught = TRUE]

\* The catch block of the listener: log, and answer 500 unless headers were sent.
Catch(rec) ==
    IF rec.by = "none"
    THEN [sendJson(rec, 500, InternalError) EXCEPT !.caught = TRUE]
    ELSE [rec EXCEPT !.pc = "done", !.caught = TRUE]

\* Mutant: the factory is called once, for the first session, and every later
\* channel is bound to that same engine.
PostCreateSharedEngine(r, rec) ==
    /\ engines < MaxChannels
    /\ engines' = engines + 1
    /\ chan' = [chan EXCEPT ![engines + 1] =
                  [state |-> "open", engine |-> 1,
                   sessionId |-> Undefined, connected |-> FALSE,
                   closedId |-> Undefined]]
    /\ req' = [req EXCEPT ![r] = [rec EXCEPT !.pc = "connect", !.outcome = "CREATE",
                                             !.transport = engines + 1]]

\* Mutant: connect is not awaited; the body is collected while the engine is
\* still being bound.
PostCreateNoAwait(r, rec) ==
    /\ engines < MaxChannels
    /\ engines' = engines + 1
    /\ chan' = [chan EXCEPT ![engines + 1] =
                  [state |-> "open", engine |-> engines + 1,
                   sessionId |-> Undefined, connected |-> FALSE,
                   closedId |-> Undefined]]
    /\ req' = [req EXCEPT ![r] = [rec EXCEPT !.pc = "parseBody", !.outcome = "CREATE",
                                             !.transport = engines + 1]]

\* POST without a recognized session id: createMcpServer(), new transport with
\* its two callbacks, then the handler suspends in `await mcpServer.connect(transport)`.
\* Channels are numbered in the order they are created.
PostCreate(r, rec) ==
    /\ engines < MaxChannels
    /\ engines' = engines + 1
    /\ chan' = [chan EXCEPT ![engines + 1] =
                  [state |-> "open", engine |-> engines + 1,
                   sessionId |-> Undefined, connected |-> FALSE,
                   closedId |-> Undefined]]
    /\ req' = [req EXCEPT ![r] = [rec EXCEPT !.pc = "connect", !.outcome = "CREATE",
                                             !.transport = engines + 1]]

\* Mutant: the session lookup is skipped and every POST creates a session.
PostReuseCreates(r, rec) == PostCreate(r, rec)

\* POST with a recognized session id: transport = transports.get(sessionId),
\* then the handler suspends in `await parseBody(req)`.
PostReuse(r, rec) ==
    /\ req' = [req EXCEPT ![r] = [rec EXCEPT !.pc = "parseBody", !.outcome = "REUSE",
                                             !.transport = MapGet(transports, rec.sid[1])]]
    /\ UNCHANGED <<chan, engines>>

\* Mutant: GET and DELETE collect a body before they forward, like POST.
GetDeleteReuseReadsBody(r, rec) ==
    /\ req' = [req EXCEPT ![r] = [rec EXCEPT !.pc = "parseBody", !.outcome = "REUSE",
                                             !.transport = MapGet(transports, rec.sid[1])]]
    /\ UNCHANGED <<chan, engines>>

\* GET or DELETE with a recognized session id: transport.handleRequest(req, res).
GetDeleteReuse(r, rec) ==
    /\ req' = [req EXCEPT ![r] = [rec EXCEPT !.pc = "handle", !.outcome = "REUSE",
                                             !.forwarded = TRUE,
                                             !.transport = MapGet(transports, rec.sid[1])]]
    /\ UNCHANGED <<chan, engines>>

\* Mutant: the session factory is called before the request is looked at, so a
\* rejected request has created an engine.
RejectAfterCreate(r, rec, status, data) ==
    /\ req' = [req EXCEPT ![r] = [sendJson(rec, status, data) EXCEPT !.outcome = "REJECT"]]
    /\ engines' = IF engines < MaxChannels THEN engines + 1 ELSE engines
    /\ UNCHANGED chan

\* A response written by the gateway itself ends the exchange.
Reject(r, rec, status, data) ==
    /\ req' = [req EXCEPT ![r] = [sendJson(rec, status, data) EXCEPT !.outcome = "REJECT"]]
    /\ UNCHANGED <<chan, engines>>

\* Mutant: every method requires a recognized session, so a POST without one
\* is rejected like a GET.
handleMcpRequestStrict(r, rec) ==
    IF rec.method \in {"POST", "GET", "DELETE"} THEN
        IF ~Recognized(transports, rec.sid)
        THEN Reject(r, rec, 400, InvalidSession)
        ELSE IF rec.method = "POST" THEN PostReuse(r, rec) ELSE GetDeleteReuse(r, rec)
    ELSE Reject(r, rec, 405, MethodNotAllowed)

\* Mutant: the session check of GET and DELETE falls through to the last branch.
handleMcpRequestFallsThrough(r, rec) ==
    IF rec.method = "POST" THEN
        IF Recognized(transports, rec.sid) THEN PostReuse(r, rec) ELSE PostCreate(r, rec)
    ELSE IF (rec.method = "GET" \/ rec.method = "DELETE") /\ Recognized(transports, rec.sid)
    THEN GetDeleteReuse(r, rec)
    ELSE Reject(r, rec, 405, MethodNotAllowed)

\* Mutant: once stop() has been called the dispatcher creates no session; a
\* POST without a recognized session id is rejected.
handleMcpRequestStopped(r, rec) ==
    IF rec.method = "POST" THEN
        IF Recognized(transports, rec.sid) THEN PostReuse(r, rec)
        ELSE IF stopCalls > 0 THEN Reject(r, rec, 400, InvalidSession)
        ELSE PostCreate(r, rec)
    ELSE IF rec.method = "GET" \/ rec.method = "DELETE" THEN
        IF ~Recognized(transports, rec.sid)
        THEN Reject(r, rec, 400, InvalidSession)
        ELSE GetDeleteReuse(r, rec)
    ELSE Reject(r, rec, 405, MethodNotAllowed)

\* handleMcpRequest(req, res), up to its first suspension point or its return.
handleMcpRequest(r, rec) ==
    IF rec.method = "POST" THEN
        IF Recognized(transports, rec.sid) THEN PostReuse(r, rec) ELSE PostCreate(r, rec)
    ELSE IF rec.method = "GET" \/ rec.method = "DELETE" THEN
        IF ~Recognized(transports, rec.sid)
        THEN Reject(r, rec, 400, InvalidSession)
        ELSE GetDeleteReuse(r, rec)
    ELSE Reject(r, rec, 405, MethodNotAllowed)

\* History: the request names a session whose channel's onclose has fired.
SessionClosed(sid) ==
    sid # Undefined /\ \E c \in Chans : chan[c].state = "closed" /\ chan[c].closedId = sid

\* Mutant: the listener rejects an unsupported verb before it looks at the path.
HttpRequestMethodFirst(r) ==
    /\ listener \in {"listening", "closing"}
    /\ req[r].pc \in {"new", "done"}
    /\ \A q \in Reqs : q < r => req[q].pc \notin {"new", "done"}
    /\ accepted < MaxRequests
    /\ accepted' = accepted + 1
    /\ \E method \in Methods, p \in Paths, sid \in HeaderValues :
            LET rec == [NoRequest EXCEPT !.method = method, !.path = p, !.sid = sid,
                                         !.sidClosed = SessionClosed(sid)]
            IN  IF method \notin {"POST", "GET", "DELETE"} \/ p = path
                THEN handleMcpRequest(r, rec)
                ELSE /\ req' = [req EXCEPT ![r] = sendJson(rec, 404, NotFound)]
                     /\ UNCHANGED <<chan, engines>>
    /\ UNCHANGED <<listener, transports,
                   stopPc, stopPos, stopCur, stopCalls, stopSnap, started,
                   stopInvoked, call>>

\* The request listener of httpServer: the path check, then the dispatcher.
\* A request takes the first free slot.  The handler runs before any of the
\* request's payload has been read.
HttpRequest(r) ==
    /\ listener \in {"listening", "closing"}
    /\ req[r].pc \in {"new", "done"}
    /\ \A q \in Reqs : q < r => req[q].pc \notin {"new", "done"}
    /\ accepted < MaxRequests
    /\ accepted' = accepted + 1
    /\ \E method \in Methods, p \in Paths, sid \in HeaderValues :
            LET rec == [NoRequest EXCEPT !.method = method, !.path = p, !.sid = sid,
                                         !.sidClosed = SessionClosed(sid)]
            IN  IF p = path
                THEN handleMcpRequest(r, rec)
                ELSE /\ req' = [req EXCEPT ![r] = sendJson(rec, 404, NotFound)]
                     /\ UNCHANGED <<chan, engines>>
    /\ UNCHANGED <<listener, transports,
                   stopPc, stopPos, stopCur, stopCalls, stopSnap, started,
                   stopInvoked, call>>

\* Mutant: the body is read synchronously, so no other handler continues while
\* an exchange is in parseBody.
ConnectDoneSerial(r) ==
    /\ req[r].pc = "connect"
    /\ \A q \in Reqs : req[q].pc # "parseBody"
    /\ chan' = [chan EXCEPT ![req[r].transport].connected = TRUE]
    /\ req' = [req EXCEPT ![r].pc = "parseBody"]
    /\ UNCHANGED <<listener, transports, engines,
                   stopPc, stopPos, stopCur, stopCalls, stopSnap, started,
                   stopInvoked, accepted, call>>

\* `await mcpServer.connect(transport)` completes: the engine is bound.
ConnectDone(r) ==
    /\ req[r].pc = "connect"
    /\ chan' = [chan EXCEPT ![req[r].transport].connected = TRUE]
    /\ req' = [req EXCEPT ![r].pc = "parseBody"]
    /\ UNCHANGED <<listener, transports, engines,
                   stopPc, stopPos, stopCur, stopCalls, stopSnap, started,
                   stopInvoked, accepted, call>>

\* req.on("end", ...) with `body` accumulated.
OnEnd(r, body) ==
    LET res == parseBody(body) IN
    req' = [req EXCEPT ![r] =
              IF res.ok
              THEN [@ EXCEPT !.pc = "handle", !.body = body, !.parsed = res.value,
                             !.forwarded = TRUE]
              ELSE Catch([@ EXCEPT !.body = body])]

\* The request stream ends with payload `body` accumulated: parseBody settles.
\* When it resolves the handler calls transport.handleRequest(req, res, body);
\* when it rejects the failure reaches the listener's catch block.
BodyEnd(r) ==
    /\ req[r].pc = "parseBody"
    /\ \E body \in Bodies : OnEnd(r, body)
    /\ UNCHANGED <<listener, transports, chan, engines,
                   stopPc, stopPos, stopCur, stopCalls, stopSnap, started,
                   stopInvoked, accepted, call>>

\* The request stream fails (req.on("error", reject)).
BodyError(r) ==
    /\ req[r].pc = "parseBody"
    /\ req' = [req EXCEPT ![r] = Catch(@)]
    /\ UNCHANGED <<listener, transports, chan, engines,
                   stopPc, stopPos, stopCur, stopCalls, stopSnap, started,
                   stopInvoked, accepted, call>>

\* ------------------------------------------------------------- the channel

\* The channel announces its session id while it handles a POST that carries a
\* message: it sets its sessionId from the generator and fires
\* onsessioninitialized, at most once per channel.
Established(r) ==
    /\ req[r].pc = "handle"
    /\ req[r].method = "POST"
    /\ req[r].parsed # Undefined
    /\ LET c == req[r].transport
           id == randomUUID(c)
       IN  /\ chan[c].sessionId = Undefined
           /\ chan' = [chan EXCEPT ![c].sessionId = Some(id)]
           /\ transports' = onsessioninitialized(transports, c, id)
    /\ UNCHANGED <<listener, req, engines,
                   stopPc, stopPos, stopCur, stopCalls, stopSnap, started,
                   stopInvoked, accepted, call>>

\* The channel closes (a close() call completes, the client disconnects, or the
\* engine shuts down): it fires onclose, once per channel.  Only a holder of
\* the channel can close it: the engine once bound, the channel itself, or
\* stop() through the registry.
\* closedId records the session id the channel had when onclose fired.
CloseChannel(ch, c) == [ch EXCEPT ![c].state = "closed", ![c].closedId = ch[c].sessionId]

ChannelClosed(c) ==
    /\ chan[c].state \in {"open", "closing"}
    /\ chan[c].connected
    /\ chan' = CloseChannel(chan, c)
    /\ transports' = onclose(transports, c)
    /\ UNCHANGED <<listener, req, engines,
                   stopPc, stopPos, stopCur, stopCalls, stopSnap, started,
                   stopInvoked, accepted, call>>

\* transport.handleRequest resolves: the channel has written the response.
\* Handling a DELETE closes the channel.
HandleDone(r) ==
    /\ req[r].pc = "handle"
    /\ req' = [req EXCEPT ![r] = [@ EXCEPT !.pc = "done", !.status = 200,
                                           !.data = EnginePayload, !.by = "channel"]]
    /\ LET c == req[r].transport IN
       IF req[r].method = "DELETE" /\ chan[c].state # "closed"
       THEN /\ chan' = CloseChannel(chan, c)
            /\ transports' = onclose(transports, c)
       ELSE UNCHANGED <<chan, transports>>
    /\ UNCHANGED <<listener, engines,
                   stopPc, stopPos, stopCur, stopCalls, stopSnap, started,
                   stopInvoked, accepted, call>>

\* While it handles the exchange the channel sends the response headers
\* (res.headersSent becomes true); the rest of the response follows.
HeadersSent(r) ==
    /\ req[r].pc = "handle"
    /\ req[r].by = "none"
    /\ req' = [req EXCEPT ![r] = [@ EXCEPT !.status = 200, !.data = EnginePayload,
                                           !.by = "channel"]]
    /\ UNCHANGED <<listener, transports, chan, engines,
                   stopPc, stopPos, stopCur, stopCalls, stopSnap, started,
                   stopInvoked, accepted, call>>

\* transport.handleRequest rejects, before or after the channel has sent the
\* response headers; the failure reaches the listener's catch block.
HandleFail(r) ==
    /\ req[r].pc = "handle"
    /\ req' = [req EXCEPT ![r] = Catch(@)]
    /\ UNCHANGED <<listener, transports, chan, engines,
                   stopPc, stopPos, stopCur, stopCalls, stopSnap, started,
                   stopInvoked, accepted, call>>

\* -------------------------------------------------------------------- stop

\* One turn of `for (const transport of transports.values()) await transport.close()`
\* from iterator position pos: either close() is called on the next channel and
\* stop() suspends, or the iteration is done, httpServer.close() is called and
\* stop() returns (its iterator is gone with it).
StopStep(pos) ==
    LET n == MapNext(transports, pos) IN
    IF n # 0
    THEN LET c == transports[n].val IN
         /\ chan' = [chan EXCEPT ![c].state = IF @ = "open" THEN "closing" ELSE @]
         /\ stopPc' = "awaitClose"
         /\ stopPos' = n
         /\ stopCur' = c
         /\ stopInvoked' = stopInvoked \cup {c}
         /\ UNCHANGED listener
    ELSE /\ listener' = httpServerClose(listener)
         /\ stopPc' = "done"
         /\ stopPos' = 0
         /\ stopCur' = 0
         /\ UNCHANGED <<chan, stopInvoked>>

\* Mutant: stop() returns after the loop without calling httpServer.close().
StopCallKeepsListener ==
    /\ stopPc \in {"idle", "done", "failed"}
    /\ stopCalls < MaxStops
    /\ stopCalls' = stopCalls + 1
    /\ stopSnap' = MapValues(transports)
    /\ LET n == MapNext(transports, 0) IN
       IF n # 0
       THEN LET c == transports[n].val IN
            /\ chan' = [chan EXCEPT ![c].state = IF @ = "open" THEN "closing" ELSE @]
            /\ stopPc' = "awaitClose"
            /\ stopPos' = n
            /\ stopCur' = c
            /\ stopInvoked' = {c}
            /\ UNCHANGED listener
       ELSE /\ stopPc' = "done"
            /\ stopPos' = 0
            /\ stopCur' = 0
            /\ stopInvoked' = {}
            /\ UNCHANGED <<chan, listener>>
    /\ UNCHANGED <<transports, req, engines, started, accepted, call>>

\* Mutant: stop() keeps a list of every channel created and closes a channel
\* that is not registered yet before it walks the registry.
StopCallClosesUnregistered ==
    /\ stopPc \in {"idle", "done", "failed"}
    /\ stopCalls < MaxStops
    /\ stopCalls' = stopCalls + 1
    /\ stopSnap' = MapValues(transports)
    /\ LET n == MapNext(transports, 0)
           pending == {c \in Chans : chan[c].state = "open" /\ c \notin MapValues(transports)}
       IN
       IF pending # {}
       THEN LET c == CHOOSE d \in pending : \A e \in pending : d <= e IN
            /\ chan' = [chan EXCEPT ![c].state = "closing"]
            /\ stopPc' = "awaitClose"
            /\ stopPos' = 0
            /\ stopCur' = c
            /\ stopInvoked' = {c}
            /\ UNCHANGED listener
       ELSE IF n # 0
       THEN LET c == transports[n].val IN
            /\ chan' = [chan EXCEPT ![c].state = IF @ = "open" THEN "closing" ELSE @]
            /\ stopPc' = "awaitClose"
            /\ stopPos' = n
            /\ stopCur' = c
            /\ stopInvoked' = {c}
            /\ UNCHANGED listener
       ELSE /\ listener' = httpServerClose(listener)
            /\ stopPc' = "done"
            /\ stopPos' = 0
            /\ stopCur' = 0
            /\ stopInvoked' = {}
            /\ UNCHANGED chan
    /\ UNCHANGED <<transports, req, engines, started, accepted, call>>

\* stop() is called: the iterator is created and the first turn runs.
StopCall ==
    /\ stopPc \in {"idle", "done", "failed"}
    /\ stopCalls < MaxStops
    /\ stopCalls' = stopCalls + 1
    /\ stopSnap' = MapValues(transports)
    /\ LET n == MapNext(transports, 0) IN
       IF n # 0
       THEN LET c == transports[n].val IN
            /\ chan' = [chan EXCEPT ![c].state = IF @ = "open" THEN "closing" ELSE @]
            /\ stopPc' = "awaitClose"
            /\ stopPos' = n
            /\ stopCur' = c
            /\ stopInvoked' = {c}
            /\ UNCHANGED listener
       ELSE /\ listener' = httpServerClose(listener)
            /\ stopPc' = "done"
            /\ stopPos' = 0
            /\ stopCur' = 0
            /\ stopInvoked' = {}
            /\ UNCHANGED chan
    /\ UNCHANGED <<transports, req, engines, started, accepted, call>>

\* Mutant: close() is called without `await`, so the loop never waits.
CloseNotAwaited(c) == TRUE

\* `await transport.close()`: the promise resolves when the channel is closed.
CloseResolved(c) == chan[c].state = "closed"

\* The awaited close() has resolved: the loop goes on.
StopResume ==
    /\ stopPc = "awaitClose"
    /\ CloseResolved(stopCur)
    /\ StopStep(stopPos)
    /\ UNCHANGED <<transports, req, engines, stopCalls, stopSnap, started,
                   accepted, call>>

\* Mutant: the failure of close() is swallowed (try/catch in the loop) and the
\* loop goes on with the next channel.
StopCloseFailsIgnored ==
    /\ stopPc = "awaitClose"
    /\ chan[stopCur].state # "closed"
    /\ StopStep(stopPos)
    /\ UNCHANGED <<transports, req, engines, stopCalls, stopSnap, started,
                   accepted, call>>

\* The awaited close() rejects: the failure leaves the loop and stop()'s promise
\* rejects; neither the rest of the loop nor httpServer.close() runs.
StopCloseFails ==
    /\ stopPc = "awaitClose"
    /\ chan[stopCur].state # "closed"
    /\ stopPc' = "failed"
    /\ stopPos' = 0
    /\ stopCur' = 0
    /\ UNCHANGED <<listener, transports, req, chan, engines, stopCalls, stopSnap,
                   started, stopInvoked, accepted, call>>

\* --------------------------------------------------------------------- spec

Next ==
    \/ Start
    \/ StartFails
    \/ ListenerClosed
    \/ \E r \in Reqs : HttpRequest(r)
    \/ \E r \in Reqs : ConnectDone(r)
    \/ \E r \in Reqs : BodyEnd(r)
    \/ \E r \in Reqs : BodyError(r)
    \/ \E r \in Reqs : Established(r)
    \/ \E c \in Chans : ChannelClosed(c)
    \/ \E r \in Reqs : HeadersSent(r)
    \/ \E r \in Reqs : HandleDone(r)
    \/ \E r \in Reqs : HandleFail(r)
    \/ StopCall
    \/ StopResume
    \/ StopCloseFails

Spec == Init /\ [][Next]_vars

\* ------------------------------------------------------- a stalled client

\* The exchange whose client may stall: its request stream need never end.
Stalled == 1

\* StalledSpec: the event loop runs every continuation that is ready, a bound
\* engine completes connect, every client but the stalled one finishes sending
\* its request, and a channel's handleRequest settles.  Nothing is assumed of
\* the body of exchange Stalled, nor of new requests, closures or stop().
StalledSpec ==
    /\ Spec
    /\ \A q \in Reqs : WF_vars(ConnectDone(q))
    /\ \A q \in Reqs \ {Stalled} : WF_vars(BodyEnd(q) \/ BodyError(q))
    /\ \A q \in Reqs : WF_vars(HandleDone(q) \/ HandleFail(q))

\* ------------------------------------------- the body collector in detail

\* Spec delivers a request body whole, at BodyEnd.  CollectorSpec follows one
\* exchange through parseBody event by event: the exchange is a POST that created
\* channel 1 and is suspended in `await parseBody(req)`; the client has
\* serialized one of Messages and its bytes arrive in some chunking.
CollectorInit ==
    /\ listener = "listening"
    /\ transports = <<>>
    /\ chan = [c \in Chans |->
                 IF c = 1 THEN [NoChannel EXCEPT !.state = "open", !.engine = 1,
                                                 !.connected = TRUE]
                 ELSE NoChannel]
    /\ engines = 1
    /\ stopPc = "idle"
    /\ stopPos = 0
    /\ stopCur = 0
    /\ stopCalls = 0
    /\ stopSnap = {}
    /\ started = "resolved"
    /\ stopInvoked = {}
    /\ accepted = 1
    /\ call = NoCall
    /\ \E i \in 1..Len(Messages) :
         \E w \in Chunkings(Utf8Encode(JSONstringify(Messages[i]))) :
            req = [r \in Reqs |->
                     IF r = 1
                     THEN [NoRequest EXCEPT !.pc = "parseBody", !.method = "POST",
                                            !.outcome = "CREATE", !.transport = 1,
                                            !.message = Some(Messages[i]), !.wire = w]
                     ELSE NoRequest]

\* req.on("data", (chunk) => (body += chunk))
RequestData(r) ==
    /\ req[r].pc = "parseBody"
    /\ req[r].wire # <<>>
    /\ req' = [req EXCEPT ![r].body = @ \o BufferToString(Head(req[r].wire)),
                          ![r].wire = Tail(@)]
    /\ UNCHANGED <<listener, transports, chan, engines,
                   stopPc, stopPos, stopCur, stopCalls, stopSnap, started,
                   stopInvoked, accepted, call>>

\* req.on("end", ...): every chunk has been delivered.
RequestEnd(r) ==
    /\ req[r].pc = "parseBody"
    /\ req[r].wire = <<>>
    /\ OnEnd(r, req[r].body)
    /\ UNCHANGED <<listener, transports, chan, engines,
                   stopPc, stopPos, stopCur, stopCalls, stopSnap, started,
                   stopInvoked, accepted, call>>

CollectorNext ==
    \/ \E r \in Reqs : RequestData(r)
    \/ \E r \in Reqs : RequestEnd(r)

CollectorSpec == CollectorInit /\ [][CollectorNext]_vars

\* ------------------------------------------------------------ two gateways

\* GatewaysSpec: createMcpHttpServer is called twice.  Each call has its own
\* closure: its own `transports`, its own dispatcher and its own channels.  Here
\* transports, req and engines hold one value per gateway, and chan holds the
\* channels of both gateways, those of gateway g being GatewayChans(g).  Both
\* gateways are listening and stop() is not called; a request is followed up to
\* its first suspension point (what comes after it is in Spec).
Gateways == 1..2

GatewayChans(g) == {(g - 1) * MaxChannels + k : k \in Chans}

\* Mutant: `transports` is a module-level Map, shared by every gateway.
transportsShared(g) == 1

\* `const transports = new Map()` runs in each call of createMcpHttpServer: the
\* callbacks and the dispatcher of gateway g use the Map of call g.
transportsOf(g) == g

\* A client can only send a session id that some channel has generated
\* (sessionIdGenerator: () => randomUUID()), or a string that is no such id.
IssuedIds == {chan[c].sessionId : c \in {d \in DOMAIN chan : chan[d].sessionId # Undefined}}

GatewaysInit ==
    /\ listener = "listening"
    /\ transports = [g \in Gateways |-> <<>>]
    /\ req = [g \in Gateways |-> NoRequest]
    /\ chan = [c \in UNION {GatewayChans(g) : g \in Gateways} |-> NoChannel]
    /\ engines = [g \in Gateways |-> 0]
    /\ stopPc = "idle"
    /\ stopPos = 0
    /\ stopCur = 0
    /\ stopCalls = 0
    /\ stopSnap = {}
    /\ started = "resolved"
    /\ stopInvoked = {}
    /\ accepted = 0
    /\ call = NoCall

\* handleMcpRequest of gateway g, up to its first suspension point or its return.
GatewayRequest(g) ==
    /\ \E method \in {"POST", "GET", "DELETE"}, sid \in {Undefined, Some("stale")} \cup IssuedIds :
          LET m == transports[transportsOf(g)]
              rec == [NoRequest EXCEPT !.method = method, !.sid = sid]
          IN  IF Recognized(m, sid)
              THEN /\ req' = [req EXCEPT ![g] =
                                [rec EXCEPT !.pc = IF method = "POST" THEN "parseBody"
                                                   ELSE "handle",
                                            !.outcome = "REUSE",
                                            !.forwarded = (method # "POST"),
                                            !.transport = MapGet(m, sid[1])]]
                   /\ UNCHANGED <<chan, engines>>
              ELSE IF method = "POST"
              THEN /\ engines[g] < MaxChannels
                   /\ LET c == (g - 1) * MaxChannels + engines[g] + 1 IN
                      /\ engines' = [engines EXCEPT ![g] = @ + 1]
                      /\ chan' = [chan EXCEPT ![c] =
                                    [NoChannel EXCEPT !.state = "open", !.engine = c]]
                      /\ req' = [req EXCEPT ![g] =
                                   [rec EXCEPT !.pc = "connect", !.outcome = "CREATE",
                                               !.transport = c]]
              ELSE /\ req' = [req EXCEPT ![g] =
                                [sendJson(rec, 400, InvalidSession)
                                    EXCEPT !.outcome = "REJECT"]]
                   /\ UNCHANGED <<chan, engines>>
    /\ UNCHANGED <<listener, transports, stopPc, stopPos, stopCur, stopCalls, stopSnap,
                   started, stopInvoked, accepted, call>>

\* Channel c of gateway g generates its session id and calls onsessioninitialized.
GatewayEstablished(g, c) ==
    /\ c \in GatewayChans(g)
    /\ chan[c].state = "open"
    /\ chan[c].sessionId = Undefined
    /\ chan' = [chan EXCEPT ![c].sessionId = Some(randomUUID(c)), ![c].connected = TRUE]
    /\ transports' = [transports EXCEPT ![transportsOf(g)] =
                         onsessioninitialized(@, c, randomUUID(c))]
    /\ UNCHANGED <<listener, req, engines, stopPc, stopPos, stopCur, stopCalls, stopSnap,
                   started, stopInvoked, accepted, call>>

\* Channel c of gateway g closes and fires onclose.
GatewayChannelClosed(g, c) ==
    /\ c \in GatewayChans(g)
    /\ chan[c].state = "open"
    /\ chan' = CloseChannel(chan, c)
    /\ transports' = [transports EXCEPT ![transportsOf(g)] = onclose(@, c)]
    /\ UNCHANGED <<listener, req, engines, stopPc, stopPos, stopCur, stopCalls, stopSnap,
                   started, stopInvoked, accepted, call>>

GatewaysNext ==
    \/ \E g \in Gateways : GatewayRequest(g)
    \/ \E g \in Gateways : \E c \in GatewayChans(g) : GatewayEstablished(g, c)
    \/ \E g \in Gateways : \E c \in GatewayChans(g) : GatewayChannelClosed(g, c)

GatewaysSpec == GatewaysInit /\ [][GatewaysNext]_vars

\* ------------------------------------------------- the demo tool and resource

\* PokemonSpec: an engine invokes the handler of the pokemon-battle tool or of
\* the pokemon-details resource.  `call` follows one invocation at a time: its
\* inputs, the locals of the handler, and what it returns.  Strings that the
\* handlers convert are sequences of characters.
Lowers == <<"b", "c", "e", "i", "l", "m", "w", "x">>

Uppers == <<"B", "C", "E", "I", "L", "M", "W", "X">>

CharIndex(t, ch) == CHOOSE i \in DOMAIN t : t[i] = ch

\* String.prototype.toLowerCase / toUpperCase, character by character.
toLowerCase(s) ==
    [i \in DOMAIN s |->
        IF \E j \in DOMAIN Uppers : Uppers[j] = s[i] THEN Lowers[CharIndex(Uppers, s[i])]
        ELSE s[i]]

toUpperCase(s) ==
    [i \in DOMAIN s |->
        IF \E j \in DOMAIN Lowers : Lowers[j] = s[i] THEN Uppers[CharIndex(Lowers, s[i])]
        ELSE s[i]]

\* Names a caller passes: two spellings of one Pokemon, another Pokemon, and a
\* name the API does not know.
PokemonNames ==
    { <<"m", "e", "w">>, <<"M", "e", "w">>, <<"c", "e", "l", "e", "b", "i">>, <<"x">> }

\* `null`, as fetchPokemon and fetchPokemonDetails return it; a Pokemon p they
\* return is Some(p).
Null == <<>>

StatNames == {"hp", "attack", "defense", "special-attack", "special-defense", "speed"}

\* What https://pokeapi.co/api/v2/pokemon/<name> answers for the names it
\* knows (lower case): id, name, types, base stats, sprite.
ApiKnown == { <<"m", "e", "w">>, <<"c", "e", "l", "e", "b", "i">> }

ApiData(n) ==
    IF n = <<"m", "e", "w">>
    THEN [id |-> 151, name |-> n, types |-> <<"psychic">>,
          stats |-> [k \in StatNames |-> 100], sprite |-> "151.png"]
    ELSE [id |-> 251, name |-> n, types |-> <<"psychic", "grass">>,
          stats |-> [k \in StatNames |-> 100], sprite |-> "251.png"]

RECURSIVE SumOver(_, _)
SumOver(f, keys) ==
    IF keys = {} THEN 0
    ELSE LET k == CHOOSE x \in keys : TRUE IN f[k] + SumOver(f, keys \ {k})

\* fetchPokemon(name): the results the call can have.  The request goes to
\* .../pokemon/${name.toLowerCase()}; a response that is not ok gives null
\* (an unknown name, or a failure of the API for a known one), an ok response
\* gives the Pokemon with totalStats the sum of its stats.
fetchPokemon(name) ==
    {Null} \cup
    (IF toLowerCase(name) \in ApiKnown
     THEN LET data == ApiData(toLowerCase(name)) IN
          {Some([id |-> data.id, name |-> data.name, types |-> data.types,
                 stats |-> data.stats,
                 totalStats |-> SumOver(data.stats, DOMAIN data.stats),
                 sprite |-> data.sprite])}
     ELSE {})

\* fetchPokemonDetails(name): as fetchPokemon; the details are the same record
\* here (height, weight, abilities and the second sprite play no part).
fetchPokemonDetails(name) == fetchPokemon(name)

\* Math.random() takes a value k / RandomSteps, k in 0 .. RandomSteps - 1.
RandomSteps == 57

MathRandom == 0..(RandomSteps - 1)

\* pokemon.stats[key] || 0
StatOrZero(pokemon, key) ==
    IF key \in DOMAIN pokemon.stats THEN pokemon.stats[key] ELSE 0

\* calculateBattleScore(pokemon) with Math.random() = k / RandomSteps:
\* Math.round(baseScore * (0.9 + 0.2 * k / RandomSteps)), computed exactly in
\* integers; Math.round(x) is floor(x + 1/2).
\* 10 * baseScore = 12 attack + 11 spAttack + 8 defense + 7 spDefense + 10 speed + 9 hp.
calculateBattleScore(pokemon, k) ==
    LET base10 == 12 * StatOrZero(pokemon, "attack")
                  + 11 * StatOrZero(pokemon, "special-attack")
                  + 8 * StatOrZero(pokemon, "defense")
                  + 7 * StatOrZero(pokemon, "special-defense")
                  + 10 * StatOrZero(pokemon, "speed")
                  + 9 * StatOrZero(pokemon, "hp")
        num == base10 * (9 * RandomSteps + 2 * k)
        den == 100 * RandomSteps
    IN  (2 * num + den) \div (2 * den)

MathMax(a, b) == IF a >= b THEN a ELSE b

MathMin(a, b) == IF a <= b THEN a ELSE b

MathAbs(a) == IF a < 0 THEN 0 - a ELSE a

\* `"${name}" is not a valid Pokemon`, as the pieces of the template.
NotValid(name) == <<"\"", name, "\" is not a valid Pokemon">>

\* The validation of the battle tool: one message per missing fighter.
Errors(pokemon1, pokemon2, fighter1, fighter2) ==
    (IF fighter1 = Null THEN <<NotValid(pokemon1)>> ELSE <<>>)
    \o (IF fighter2 = Null THEN <<NotValid(pokemon2)>> ELSE <<>>)

\* The text of the error result, line by line (errors.join("\n") between two
\* empty lines).
CannotProceed(errors) ==
    << <<"Battle cannot proceed!">>, <<>> >> \o errors \o
    << <<>>, <<"Please provide valid Pokemon names (e.g., pikachu, charizard, mewtwo).">> >>

\* const wasClose = Math.abs(score1 - score2) < 50
wasClose(score1, score2) == MathAbs(score1 - score2) < 50

\* Mutant: equal scores make fighter 1 the winner.
FirstWinsTies(score1, score2) == score1 >= score2

\* The test `score1 > score2` that picks winner and loser.
FirstWins(score1, score2) == score1 > score2

\* battleReport of two fighters and their scores.
BattleReport(pokemon1Data, pokemon2Data, score1, score2) ==
    LET winner == IF FirstWins(score1, score2) THEN pokemon1Data ELSE pokemon2Data
        loser == IF FirstWins(score1, score2) THEN pokemon2Data ELSE pokemon1Data
        winnerScore == MathMax(score1, score2)
        loserScore == MathMin(score1, score2)
    IN  [battle |->
           [fighter1 |-> [name |-> toUpperCase(pokemon1Data.name),
                          types |-> pokemon1Data.types, stats |-> pokemon1Data.stats,
                          totalStats |-> pokemon1Data.totalStats,
                          battleScore |-> score1, sprite |-> pokemon1Data.sprite],
            fighter2 |-> [name |-> toUpperCase(pokemon2Data.name),
                          types |-> pokemon2Data.types, stats |-> pokemon2Data.stats,
                          totalStats |-> pokemon2Data.totalStats,
                          battleScore |-> score2, sprite |-> pokemon2Data.sprite]],
         result |->
           [winner |-> toUpperCase(winner.name),
            loser |-> toUpperCase(loser.name),
            winnerScore |-> winnerScore,
            loserScore |-> loserScore,
            margin |-> winnerScore - loserScore,
            wasClose |-> wasClose(score1, score2),
            victoryType |-> IF wasClose(score1, score2) THEN "narrow victory"
                            ELSE "decisive victory"]]

\* The pokemon-battle tool is called with two names; the handler starts both
\* fetches and suspends in `await Promise.all([...])`.
BattleCall ==
    /\ call.pc = "idle"
    /\ \E pokemon1 \in PokemonNames, pokemon2 \in PokemonNames :
          call' = [pc |-> "fetch", handler |-> "pokemon-battle",
                   pokemon1 |-> pokemon1, pokemon2 |-> pokemon2]
    /\ UNCHANGED <<listener, transports, req, chan, engines, stopPc, stopPos, stopCur,
                   stopCalls, stopSnap, started, stopInvoked, accepted>>

\* Mutant: the validation stops at the first missing fighter.
BattleOutcomeFirstErrorOnly(pokemon1, pokemon2, fighter1, fighter2, k1, k2) ==
    LET errors == IF fighter1 = Null THEN <<NotValid(pokemon1)>>
                  ELSE IF fighter2 = Null THEN <<NotValid(pokemon2)>> ELSE <<>>
    IN
    IF Len(errors) > 0
    THEN [errors |-> errors, score1 |-> Undefined, score2 |-> Undefined,
          battleReport |-> Undefined,
          result |-> [content |-> << [type |-> "text", text |-> CannotProceed(errors)] >>,
                      isError |-> TRUE]]
    ELSE LET score1 == calculateBattleScore(fighter1[1], k1)
             score2 == calculateBattleScore(fighter2[1], k2)
             report == BattleReport(fighter1[1], fighter2[1], score1, score2)
         IN  [errors |-> errors, score1 |-> Some(score1), score2 |-> Some(score2),
              battleReport |-> Some(report),
              result |-> [content |-> << [type |-> "text", text |-> <<"JSON", report>>],
                                         [type |-> "text", text |-> <<"narrative">>] >>]]

\* The handler of pokemon-battle after both fetches: validation, and either the
\* error result or the scores (k1, k2 are the two values of Math.random()),
\* the report and the result with the report's JSON text and the narrative
\* prompt.  errors, score1, score2 and battleReport are the handler's locals.
BattleOutcome(pokemon1, pokemon2, fighter1, fighter2, k1, k2) ==
    LET errors == Errors(pokemon1, pokemon2, fighter1, fighter2) IN
    IF Len(errors) > 0
    THEN [errors |-> errors, score1 |-> Undefined, score2 |-> Undefined,
          battleReport |-> Undefined,
          result |-> [content |-> << [type |-> "text", text |-> CannotProceed(errors)] >>,
                      isError |-> TRUE]]
    ELSE LET score1 == calculateBattleScore(fighter1[1], k1)
             score2 == calculateBattleScore(fighter2[1], k2)
             report == BattleReport(fighter1[1], fighter2[1], score1, score2)
         IN  [errors |-> errors, score1 |-> Some(score1), score2 |-> Some(score2),
              battleReport |-> Some(report),
              result |-> [content |-> << [type |-> "text", text |-> <<"JSON", report>>],
                                         [type |-> "text", text |-> <<"narrative">>] >>]]

\* Both fetches have settled and the handler runs to its return.
BattleFetched ==
    /\ call.pc = "fetch"
    /\ call.handler = "pokemon-battle"
    /\ \E fighter1 \in fetchPokemon(call.pokemon1), fighter2 \in fetchPokemon(call.pokemon2),
          k1 \in MathRandom, k2 \in MathRandom :
          LET out == BattleOutcome(call.pokemon1, call.pokemon2, fighter1, fighter2, k1, k2)
          IN  call' = [pc |-> "done", handler |-> "pokemon-battle",
                       pokemon1 |-> call.pokemon1, pokemon2 |-> call.pokemon2,
                       fighter1 |-> fighter1, fighter2 |-> fighter2,
                       errors |-> out.errors, score1 |-> out.score1, score2 |-> out.score2,
                       battleReport |-> out.battleReport, result |-> out.result]
    /\ UNCHANGED <<listener, transports, req, chan, engines, stopPc, stopPos, stopCur,
                   stopCalls, stopSnap, started, stopInvoked, accepted>>

\* The longest list the {name} capture of a resource URI is given as.
MaxCapture == 2

\* Values of the `name` variable the resource template hands to the handler
\* (string | string[]): one name, or a list of one to MaxCapture names.
Captures ==
    {[array |-> FALSE, value |-> n, items |-> <<>>] : n \in PokemonNames}
    \cup {[array |-> TRUE, value |-> <<>>, items |-> it] :
             it \in UNION {[1..len -> PokemonNames] : len \in 1..MaxCapture}}

ArrayIsArray(name) == name.array

\* Mutant: of a list the last element is used.
pokemonNameLast(name) ==
    IF ArrayIsArray(name) THEN name.items[Len(name.items)] ELSE name.value

\* const pokemonName = Array.isArray(name) ? name[0] : name
pokemonName(name) == IF ArrayIsArray(name) THEN name.items[1] ELSE name.value

BASE_URI == "mcp://pokemon-battle"

\* The pokemon-details resource is read: the handler normalizes the capture,
\* starts the fetch for that name and suspends.  `requested` is the last
\* segment of the URL fetchPokemonDetails asks the API for.
DetailsCall ==
    /\ call.pc = "idle"
    /\ \E name \in Captures :
          call' = [pc |-> "fetch", handler |-> "pokemon-details",
                   uri |-> [href |-> <<BASE_URI, "/pokemon/", name>>],
                   name |-> name,
                   pokemonName |-> pokemonName(name),
                   requested |-> toLowerCase(pokemonName(name))]
    /\ UNCHANGED <<listener, transports, req, chan, engines, stopPc, stopPos, stopCur,
                   stopCalls, stopSnap, started, stopInvoked, accepted>>

\* The fetch has settled: the handler returns the Pokemon's JSON text, or the
\* "not found" text when the fetch gave null.
DetailsFetched ==
    /\ call.pc = "fetch"
    /\ call.handler = "pokemon-details"
    /\ \E pokemon \in fetchPokemonDetails(call.pokemonName) :
          call' = [pc |-> "done", handler |-> "pokemon-details",
                   uri |-> call.uri, name |-> call.name,
                   pokemonName |-> call.pokemonName, requested |-> call.requested,
                   pokemon |-> pokemon,
                   result |->
                     [contents |->
                        << [uri |-> call.uri.href,
                            text |-> IF pokemon = Null
                                     THEN <<"JSON", [error |-> <<"Pokemon \"", call.pokemonName,
                                                                 "\" not found">>]>>
                                     ELSE <<"JSON", pokemon[1]>>] >>]]
    /\ UNCHANGED <<listener, transports, req, chan, engines, stopPc, stopPos, stopCur,
                   stopCalls, stopSnap, started, stopInvoked, accepted>>

\* The handler has returned; the engine may invoke a handler again.
CallReturn ==
    /\ call.pc = "done"
    /\ call' = NoCall
    /\ UNCHANGED <<listener, transports, req, chan, engines, stopPc, stopPos, stopCur,
                   stopCalls, stopSnap, started, stopInvoked, accepted>>

PokemonNext ==
    \/ BattleCall
    \/ BattleFetched
    \/ DetailsCall
    \/ DetailsFetched
    \/ CallReturn

PokemonSpec == Init /\ [][PokemonNext]_vars

\* ------------------------------------------------------------ vocabulary

\* The slot the next request takes.
FreeSlot(r) ==
    /\ req[r].pc \in {"new", "done"}
    /\ \A q \in Reqs : q < r => req[q].pc \notin {"new", "done"}

\* This step is the arrival of a request, which takes slot r.
Arrives(r) == accepted' = accepted + 1 /\ FreeSlot(r)

\* The ids that are keys of the registry, read entry by entry.
RegisteredIds == {transports[i].key : i \in {j \in DOMAIN transports : transports[j].live}}

\* The live entries of the registry under key k.
EntriesFor(m, k) == {i \in DOMAIN m : m[i].live /\ m[i].key = k}

\* The channel the engine assigned id k to.
Owner(k) == CHOOSE c \in Chans : chan[c].sessionId = Some(k)

\* ---------------------------------------------------------------- claims

\* C1: once the engine has assigned id X to the channel a POST created, the
\* registry holds exactly one entry for X, which maps X to that channel; and a
\* POST arriving with header X while X is registered does not call the session
\* factory, is bound to that same channel, and is forwarded to it and to no other.
C1_Step ==
    /\ \A c \in Chans :
         (chan[c].sessionId = Undefined /\ chan'[c].sessionId # Undefined) =>
            LET X == chan'[c].sessionId[1] IN
            /\ Cardinality(EntriesFor(transports', X)) = 1
            /\ \A i \in EntriesFor(transports', X) : transports'[i].val = c
    /\ \A r \in Reqs :
         (/\ Arrives(r)
          /\ req'[r].method = "POST" /\ req'[r].path = path
          /\ req'[r].sid # Undefined
          /\ req'[r].sid[1] \in RegisteredIds) =>
            /\ engines' = engines
            /\ chan' = chan
            /\ req'[r].transport = Owner(req'[r].sid[1])
            /\ \A i \in EntriesFor(transports, req'[r].sid[1]) :
                  transports[i].val = req'[r].transport
    /\ \A r \in Reqs :
         (req[r].pc = "parseBody" /\ req[r].method = "POST" /\ req[r].outcome = "REUSE"
          /\ ~req[r].forwarded /\ req'[r].forwarded) =>
            /\ req'[r].transport = Owner(req[r].sid[1])
            /\ engines' = engines

C1_ReuseSameChannel == [][C1_Step]_vars

\* A POST that reused session X has been forwarded to X's channel and answered
\* by it, with one engine instance created in all.
C1_Witness ==
    \E r \in Reqs :
        /\ req[r].method = "POST" /\ req[r].outcome = "REUSE"
        /\ req[r].forwarded /\ req[r].pc = "done" /\ req[r].by = "channel"
        /\ chan[req[r].transport].sessionId = req[r].sid
        /\ engines = 1

\* Every id a registry key or a header can be.
AllIds == {randomUUID(c) : c \in Chans} \cup {"", "stale"}

\* C2: in every reachable state, a session id is a key of the registry if and
\* only if a channel has been established with that id and that channel's
\* closed callback has not fired.
C2_RegisteredIffEstablishedOpen ==
    \A k \in AllIds :
        k \in RegisteredIds <=>
            \E c \in Chans : chan[c].sessionId = Some(k) /\ chan[c].state # "closed"

C4_ConcurrentCreatesDistinct ==
    \A r1, r2 \in Reqs :
        (r1 # r2 /\ req[r1].outcome = "CREATE" /\ req[r2].outcome = "CREATE") =>
            LET c1 == req[r1].transport
                c2 == req[r2].transport
            IN  /\ c1 # c2
                /\ engines >= 2
                /\ chan[c1].engine # 0 /\ chan[c2].engine # 0
                /\ chan[c1].engine # chan[c2].engine
                /\ (chan[c1].sessionId # Undefined => chan[c1].sessionId # chan[c2].sessionId)
                /\ \A c \in {c1, c2} :
                     (chan[c].sessionId # Undefined /\ chan[c].state # "closed") =>
                        /\ Cardinality(EntriesFor(transports, chan[c].sessionId[1])) = 1
                        /\ MapGet(transports, chan[c].sessionId[1]) = c

\* Both POSTs are being handled at once, both channels are established and the
\* registry holds the two entries.
C4_Witness ==
    /\ req[1].outcome = "CREATE" /\ req[2].outcome = "CREATE"
    /\ req[1].pc = "handle" /\ req[2].pc = "handle"
    /\ req[1].sid = Undefined /\ req[2].sid = Undefined
    /\ chan[req[1].transport].sessionId # Undefined
    /\ chan[req[2].transport].sessionId # Undefined
    /\ Cardinality(RegisteredIds) = 2

\* C5 as stated: when stop() has called httpServer.close(), close() was invoked
\* by stop() on every channel that was registered when stop() was called, and
\* every one of those channels is closed.
C5_StopInvokesCloseOnAll ==
    stopPc = "done" =>
        \A c \in stopSnap : c \in stopInvoked /\ chan[c].state = "closed"

\* C5 as amended: when stop() has called httpServer.close(), every channel
\* that was registered when stop() was called is closed, every close() call
\* stop() made has completed, and a channel of the snapshot on which stop() did
\* not invoke close() had already been removed from the registry by its own
\* closed callback.
C5_StopClosesAllBeforeListener ==
    stopPc = "done" =>
        /\ \A c \in stopSnap \cup stopInvoked : chan[c].state = "closed"
        /\ \A c \in stopSnap \ stopInvoked :
              chan[c].closedId # Undefined /\ chan[c].closedId[1] \notin RegisteredIds

\* stop() ran with two registered sessions, invoked close() on both and has
\* called httpServer.close().
C5_Witness ==
    /\ stopPc = "done"
    /\ Cardinality(stopSnap) = 2
    /\ stopInvoked = stopSnap
    /\ listener = "closing"

\* The step in which a call of stop() returns and its promise resolves.
StopCompletes == stopPc' = "done" /\ (stopPc = "awaitClose" \/ stopCalls' # stopCalls)

\* C6: at the moment the promise of stop() resolves, all close() calls stop()
\* made have completed and the listener has finished closing: it is neither
\* still listening nor still closing.
C6_Step ==
    StopCompletes =>
        /\ \A c \in stopInvoked' : chan'[c].state = "closed"
        /\ listener' \notin {"listening", "closing"}

C6_StopResolvesAfterListenerClosed == [][C6_Step]_vars

\* C7: at the moment stop() completes, the registry is empty.
C7_Step == StopCompletes => RegisteredIds' = {}

C7_RegistryEmptyAfterStop == [][C7_Step]_vars

\* C8: a GET or DELETE that arrives at the endpoint without a session header,
\* or with a header that is no key of the registry, is answered by the gateway
\* with 400 and the "Invalid or missing session ID" envelope, the same response
\* in both cases; nothing is forwarded and neither registry nor channels change.
C8_Step ==
    \A r \in Reqs :
        (/\ Arrives(r)
         /\ req'[r].method \in {"GET", "DELETE"} /\ req'[r].path = path
         /\ (req'[r].sid = Undefined \/ req'[r].sid[1] \notin RegisteredIds)) =>
            /\ req'[r].pc = "done"
            /\ req'[r].status = 400
            /\ req'[r].data = [jsonrpc |-> "2.0",
                               error |-> [code |-> -32000,
                                          message |-> "Invalid or missing session ID"],
                               id |-> "null"]
            /\ req'[r].by = "gateway"
            /\ ~req'[r].forwarded
            /\ req'[r].transport = 0
            /\ UNCHANGED <<transports, chan, engines>>

C8_MissingSessionRejected == [][C8_Step]_vars

\* A DELETE whose header names an id that is not registered got the 400 while
\* another session is registered.
C8_Witness ==
    \E r \in Reqs :
        /\ req[r].method = "DELETE" /\ req[r].path = path
        /\ req[r].sid = Some("stale") /\ req[r].status = 400 /\ req[r].by = "gateway"
        /\ RegisteredIds # {}

\* C9: a POST that arrives at the endpoint with a session header that is no key
\* of the registry takes the CREATE outcome exactly as a POST without header
\* does (the resulting exchange differs in nothing but the header it carries):
\* the factory is called once, a new channel is constructed for it, the handler
\* suspends in connect, and nothing is written; after connect and the body, the
\* request is forwarded to that new channel.  The gateway never answers a POST
\* to the endpoint with 400.
C9_Step ==
    /\ \A r \in Reqs :
         (/\ Arrives(r)
          /\ req'[r].method = "POST" /\ req'[r].path = path
          /\ (req'[r].sid = Undefined \/ req'[r].sid[1] \notin RegisteredIds)) =>
             /\ engines' = engines + 1
             /\ req'[r] = [NoRequest EXCEPT !.method = "POST", !.sid = req'[r].sid,
                                            !.sidClosed = req'[r].sidClosed,
                                            !.pc = "connect", !.outcome = "CREATE",
                                            !.transport = engines + 1]
             /\ chan[engines + 1].state = "none"
             /\ chan'[engines + 1].state = "open"
             /\ chan'[engines + 1].engine = engines + 1
             /\ \A c \in Chans \ {engines + 1} : chan'[c] = chan[c]
             /\ transports' = transports
    /\ \A r \in Reqs :
         (req[r].pc = "parseBody" /\ req[r].outcome = "CREATE"
          /\ ~req[r].forwarded /\ req'[r].forwarded) =>
             /\ req'[r].transport = req[r].transport
             /\ chan[req[r].transport].connected
    /\ \A r \in Reqs :
         (req'[r].method = "POST" /\ req'[r].path = path /\ req'[r].by = "gateway") =>
             req'[r].status = 500

C9_UnknownIdCreates == [][C9_Step]_vars

\* A POST that carried an unregistered id created a channel, was forwarded to
\* it and the channel became established under a new id.
C9_Witness ==
    \E r \in Reqs :
        /\ req[r].method = "POST" /\ req[r].sid = Some("stale")
        /\ req[r].outcome = "CREATE" /\ req[r].forwarded
        /\ chan[req[r].transport].sessionId # Undefined

\* C10: a request to the endpoint whose method is not POST, GET or DELETE is
\* answered by the gateway with 405 and the "Method not allowed" envelope,
\* whatever its session header, and is forwarded to no channel.
C10_MethodNotAllowed ==
    \A r \in Reqs :
        (req[r].pc # "new" /\ req[r].path = path
         /\ req[r].method \notin {"POST", "GET", "DELETE"}) =>
            /\ req[r].pc = "done"
            /\ req[r].status = 405
            /\ req[r].data = [jsonrpc |-> "2.0",
                              error |-> [code |-> -32000, message |-> "Method not allowed"],
                              id |-> "null"]
            /\ req[r].by = "gateway"
            /\ req[r].outcome = "REJECT"
            /\ ~req[r].forwarded
            /\ req[r].transport = 0

\* A PUT carrying the id of a registered session got the 405.
C10_Witness ==
    \E r \in Reqs :
        /\ req[r].method = "PUT" /\ req[r].path = path /\ req[r].status = 405
        /\ req[r].sid # Undefined /\ req[r].sid[1] \in RegisteredIds

\* C11: a request whose path differs from the endpoint path is answered by the
\* listener with 404 and the body {"error":"Not found"}, whatever its method
\* and its session header (an unsupported verb included: 404, not 405); the
\* dispatcher does not run for it: no outcome is taken, no session is looked up
\* or created, nothing is forwarded, and registry and channels are unchanged.
C11_Step ==
    \A r \in Reqs :
        (Arrives(r) /\ req'[r].path # "/mcp") =>
            /\ req'[r].pc = "done"
            /\ req'[r].status = 404
            /\ req'[r].data = [error |-> "Not found"]
            /\ req'[r].by = "gateway"
            /\ req'[r].outcome = "NONE"
            /\ req'[r].transport = 0
            /\ ~req'[r].forwarded
            /\ ~req'[r].caught
            /\ engines' = engines /\ chan' = chan /\ transports' = transports

C11_WrongPathNotFound == [][C11_Step]_vars

\* A session was established by the first request, which has been answered;
\* the second request, a PUT to another path that carries the session's id,
\* got 404.
C11_Witness ==
    /\ accepted = 2 /\ req[2].pc = "new"
    /\ req[1].path # "/mcp" /\ req[1].method = "PUT" /\ req[1].status = 404
    /\ req[1].sid # Undefined /\ req[1].sid[1] \in RegisteredIds

\* C12: when the handling of a request to the endpoint fails (the failure
\* reaches the listener's catch block), the listener writes status 500 with the
\* -32603 envelope if no response headers had been sent for the exchange, and
\* writes nothing if headers had been sent: the response stays as the channel
\* left it.  In both cases the exchange is over for the gateway.
C12_Step ==
    \A r \in Reqs :
        (req[r].pc \notin {"new", "done"} /\ ~req[r].caught /\ req'[r].caught) =>
            /\ req'[r].pc = "done"
            /\ req[r].path = "/mcp"
            /\ IF req[r].by = "none"
               THEN /\ req'[r].by = "gateway"
                    /\ req'[r].status = 500
                    /\ req'[r].data = [jsonrpc |-> "2.0",
                                       error |-> [code |-> -32603,
                                                  message |-> "Internal server error"],
                                       id |-> "null"]
               ELSE /\ req'[r].by = req[r].by
                    /\ req'[r].status = req[r].status
                    /\ req'[r].data = req[r].data

C12_InternalErrorIffNoHeaders == [][C12_Step]_vars

\* Two failed exchanges: one answered 500 by the listener, one whose headers
\* the channel had sent before the failure.
C12_Witness ==
    \E r, q \in Reqs :
        /\ req[r].caught /\ req[r].by = "gateway" /\ req[r].status = 500
        /\ req[q].caught /\ req[q].by = "channel" /\ req[q].status = 200

\* C13: a POST to the endpoint whose request stream ends with a non-empty body
\* that is not one JSON value is answered by the listener with 500 and the
\* -32603 "Internal server error" envelope, and is never forwarded to a
\* channel: handleRequest is not called for the exchange.
C13_UnparseableBodyRejected ==
    \A r \in Reqs :
        (req[r].method = "POST" /\ req[r].body # <<>> /\ ~JSONparse(req[r].body).ok) =>
            /\ req[r].pc = "done"
            /\ req[r].status = 500
            /\ req[r].data = [jsonrpc |-> "2.0",
                              error |-> [code |-> -32603,
                                         message |-> "Internal server error"],
                              id |-> "null"]
            /\ req[r].by = "gateway"
            /\ ~req[r].forwarded
            /\ req[r].parsed = Undefined

\* A POST whose channel was created and bound got 500 for its unparseable body.
C13_Witness ==
    \E r \in Reqs :
        /\ req[r].method = "POST" /\ req[r].body = <<"[", "1">>
        /\ req[r].status = 500 /\ req[r].outcome = "CREATE"
        /\ chan[req[r].transport].connected

\* C14: when the request stream of a POST ends with zero bytes accumulated, the
\* body collector yields undefined, never a failure, and the request is
\* forwarded to the channel the dispatcher selected, with an absent body.
C14_Step ==
    /\ parseBody(<<>>) = [ok |-> TRUE, value |-> <<>>]
    /\ \A r \in Reqs :
         (BodyEnd(r) /\ req'[r].body = <<>>) =>
            /\ req[r].method = "POST"
            /\ req'[r] = [req[r] EXCEPT !.pc = "handle", !.forwarded = TRUE]
            /\ req[r].parsed = <<>>
            /\ ~req'[r].caught
            /\ req'[r].transport \in 1..engines

C14_EmptyBodyForwarded == [][C14_Step]_vars

\* A POST with an empty body was forwarded and answered by its channel.
C14_Witness ==
    \E r \in Reqs :
        /\ req[r].method = "POST" /\ req[r].forwarded /\ req[r].body = <<>>
        /\ req[r].parsed = Undefined /\ req[r].by = "channel" /\ req[r].pc = "done"

\* C15: for every message and every way its serialized form is split into
\* chunks, the collector has accumulated the chunks in arrival order when the
\* stream ends, and the value handed to the channel equals the message.
C15_RoundTrip ==
    \A r \in Reqs :
        (req[r].message # Undefined /\ req[r].pc # "parseBody") =>
            /\ req[r].forwarded
            /\ req[r].parsed = req[r].message

\* The round trip of C15 for the messages whose serialized form has one byte
\* per character.
C15_SingleByteRoundTrip ==
    \A r \in Reqs :
        (/\ req[r].message # Undefined /\ req[r].pc # "parseBody"
         /\ LET text == JSONstringify(req[r].message[1]) IN Utf8Encode(text) = text) =>
            /\ req[r].forwarded
            /\ req[r].parsed = req[r].message
            /\ req[r].body = JSONstringify(req[r].message[1])

\* The channels that have a live entry in registry m.
RegisteredChannels(m) == {m[i].val : i \in {j \in DOMAIN m : m[j].live}}

\* This step fires the closed callback of channel c.
OncloseFires(c) == chan[c].state # "closed" /\ chan'[c].state = "closed"

\* C16: once the closed callback of a channel has fired, no step adds a
\* registry entry for that channel: a later firing of its established callback
\* leaves the channel unregistered.
C16_Step ==
    \A c \in Chans :
        (chan[c].state = "closed" /\ c \notin RegisteredChannels(transports)) =>
            c \notin RegisteredChannels(transports')

C16_NoInsertionAfterClosure == [][C16_Step]_vars

\* This step is taken by stop(): its call or the continuation of its loop.
StopRuns == stopCalls' # stopCalls \/ stopPc' # stopPc \/ stopPos' # stopPos

\* C17: a registry entry is removed only by the closed callback of the channel
\* it maps to, fired while that channel holds the entry's id; when the closed
\* callback of an established channel fires, its entry is removed in that very
\* step; a removed entry never returns and its id is never registered again,
\* so no entry is removed twice.  The dispatcher (every arrival, whatever its
\* outcome) and stop() leave the registry exactly as it is.
C17_Step ==
    /\ \A i \in DOMAIN transports :
         (transports[i].live /\ transports'[i] # transports[i]) =>
            /\ OncloseFires(transports[i].val)
            /\ chan[transports[i].val].sessionId = <<transports[i].key>>
            /\ transports'[i] = [transports[i] EXCEPT !.live = FALSE]
    /\ \A i \in DOMAIN transports :
         ~transports[i].live =>
            /\ transports'[i] = transports[i]
            /\ EntriesFor(transports', transports[i].key) = {}
    /\ DOMAIN transports \subseteq DOMAIN transports'
    /\ \A c \in Chans :
         (OncloseFires(c) /\ chan[c].sessionId # Undefined) =>
            EntriesFor(transports', chan[c].sessionId[1]) = {}
    /\ ((\E r \in Reqs : Arrives(r)) \/ StopRuns) => transports' = transports

C18_Step ==
    \A c \in Chans :
        (OncloseFires(c) /\ chan[c].sessionId = Undefined) => transports' = transports

C18_CloseWithoutIdNoOp == [][C18_Step]_vars

\* A channel closed without ever having an id while another session was
\* registered, and that session still is.
C18_Witness ==
    \E c, d \in Chans :
        /\ chan[c].state = "closed" /\ chan[c].sessionId = Undefined
        /\ chan[d].sessionId # Undefined /\ chan[d].sessionId[1] \in RegisteredIds

\* C19: a request the gateway answers itself (400 for a GET or DELETE with a
\* missing or unknown id, 405 for an unsupported verb, 404 for another path)
\* leaves the registry unchanged, calls the session factory for no engine and
\* performs no operation on any channel; and the lookup of a request that
\* reuses a session leaves the registry unchanged as well.
C19_Step ==
    \A r \in Reqs :
        Arrives(r) =>
            /\ transports' = transports
            /\ req'[r].status \in {400, 404, 405} =>
                  /\ engines' = engines
                  /\ chan' = chan
                  /\ ~req'[r].forwarded
                  /\ req'[r].transport = 0
                  /\ req'[r].by = "gateway" /\ req'[r].pc = "done"
            /\ req'[r].outcome = "REUSE" => (engines' = engines /\ chan' = chan)
            /\ (req'[r].path # "/mcp"
                \/ req'[r].method \notin {"POST", "GET", "DELETE"}
                \/ (req'[r].method # "POST"
                    /\ (req'[r].sid = Undefined \/ req'[r].sid[1] \notin RegisteredIds)))
                  => req'[r].status \in {400, 404, 405}

C19_RejectsHaveNoEffect == [][C19_Step]_vars

\* A session was established by the first request, which has been answered;
\* the second request, a GET naming an unknown id, was rejected with 400 and
\* the session is still registered.
C19_Witness ==
    /\ accepted = 2 /\ req[2].pc = "new"
    /\ req[1].status = 400 /\ req[1].outcome = "REJECT" /\ req[1].method = "GET"
    /\ req[1].sid = <<"stale">> /\ RegisteredIds # {}

\* C20: while a POST is suspended in the body collector, its request stream
\* not ending, the listener still accepts a request into the next free slot
\* (as long as it listens and the behaviour has requests left), and every other
\* exchange in progress runs on to the end of its response, although the
\* stalled body never completes.
C20_StalledBodyDoesNotBlock ==
    /\ [](\A q \in Reqs :
            (req[Stalled].pc = "parseBody" /\ q # Stalled /\ FreeSlot(q)
             /\ listener = "listening" /\ accepted < MaxRequests)
                => ENABLED HttpRequest(q))
    /\ \A q \in Reqs \ {Stalled} :
          (req[Stalled].pc = "parseBody" /\ req[q].pc \notin {"new", "done"})
              ~> (req[q].pc = "done" /\ req[q].status # 0)

\* With exchange Stalled suspended in the body collector, another POST has been
\* accepted and dispatched and has all of its own steps still before it.
C20_Witness ==
    \E q \in Reqs \ {Stalled} :
        /\ req[Stalled].pc = "parseBody" /\ req[Stalled].method = "POST"
        /\ req[q].method = "POST" /\ req[q].outcome = "CREATE" /\ req[q].pc = "connect"

\* C21: the promise of start() is resolved only once the listener accepts
\* connections (it has been listening), and when the port is unavailable, so
\* that listen() has failed, the promise is settled with a failure.
C21_StartResolvesOrFails ==
    /\ started = "resolved" => listener \in {"listening", "closing", "closed"}
    /\ listener \in {"listening", "closing", "closed"} => started = "resolved"
    /\ listener = "failed" => started = "rejected"

\* C22: stop() called while the registry is empty invokes close() on no channel,
\* calls httpServer.close() (a listening server stops accepting, any other is
\* left as it is) and completes without failing; a further call with the
\* registry still empty does exactly the same.
C22_StopOnEmptyRegistry ==
    [][(stopCalls' = stopCalls + 1 /\ RegisteredChannels(transports) = {})
       => /\ stopInvoked' = {}
          /\ chan' = chan
          /\ transports' = transports
          /\ listener' = (IF listener = "listening" THEN "closing" ELSE listener)
          /\ stopPc' = "done"]_vars

\* Witness: stop() has been called twice and completed, no channel was ever
\* created (the registry was empty at both calls) and the listener was closed.
C22_Witness ==
    /\ stopCalls = 2
    /\ stopPc = "done"
    /\ engines = 0
    /\ stopInvoked = {}
    /\ listener \in {"closing", "closed"}
    /\ started = "resolved"

\* C23: every channel is bound to exactly one engine and keeps it; the factory
\* is invoked exactly once by a request that takes CREATE and by nothing else
\* (not by REUSE, not by REJECT, not by any other step), so there are as many
\* engines as channels; no two channels share an engine.
C23_OneEnginePerChannel ==
    [][/\ Cardinality({c \in Chans : chan'[c].state # "none"}) = engines'
       /\ \A c \in Chans : chan'[c].state # "none" => chan'[c].engine \in 1..engines'
       /\ \A c, d \in Chans :
             (c # d /\ chan'[c].state # "none" /\ chan'[d].state # "none")
             => chan'[c].engine # chan'[d].engine
       /\ \A c \in Chans : chan[c].state # "none" => chan'[c].engine = chan[c].engine
       /\ \A r \in Reqs :
             Arrives(r) => engines' = (IF req'[r].outcome = "CREATE"
                                       THEN engines + 1 ELSE engines)
       /\ engines' # engines => \E r \in Reqs : Arrives(r) /\ req'[r].outcome = "CREATE"]_vars

\* Witness: two requests took CREATE; there are two channels and two engines.
C23_Witness ==
    /\ engines = 2
    /\ \A r \in Reqs : req[r].outcome = "CREATE"
    /\ req[1].transport # req[2].transport
    /\ chan[req[1].transport].engine # chan[req[2].transport].engine

\* C24 (GatewaysSpec): the registries of two gateways are independent.  The
\* registry of a gateway holds channels of that gateway only and changes only
\* when one of its own channels is established or closed; no id is a key of
\* both registries; and a request that presents to one gateway an id that a
\* channel of the other gateway has generated is never answered by REUSE.
C24_IndependentRegistries ==
    [][\A g, h \in Gateways :
          g # h =>
            /\ MapValues(transports'[g]) \subseteq GatewayChans(g)
            /\ MapKeys(transports'[g]) \cap MapKeys(transports'[h]) = {}
            /\ (\A c \in GatewayChans(g) : chan'[c] = chan[c])
                  => transports'[g] = transports[g]
            /\ \A c \in GatewayChans(g) :
                  (req'[h] # req[h] /\ req'[h].sid = chan[c].sessionId
                                    /\ chan[c].sessionId # Undefined)
                  => req'[h].outcome \in {"CREATE", "REJECT"}]_vars

\* Witness: session s1 is registered in gateway 1 and has been since it was
\* generated; gateway 2, with a session of its own registered, was presented
\* s1 (which a client can only send once it exists) and rejected it.
C24_Witness ==
    /\ MapHas(transports[1], "s1")
    /\ MapKeys(transports[2]) # {}
    /\ req[2].sid = Some("s1")
    /\ req[2].outcome = "REJECT"

\* C25: a GET or DELETE that arrives with an id that is registered at that
\* moment is forwarded in the very step of its arrival (no suspension between
\* lookup and forwarding): no body is read, the factory is not invoked, no
\* channel and no registry entry changes, and the channel that receives the
\* request is the one registered under that id, still registered after the step.
C25_GetDeleteForwarded ==
    [][\A r \in Reqs :
         (/\ Arrives(r)
          /\ req'[r].method \in {"GET", "DELETE"} /\ req'[r].path = path
          /\ req'[r].sid # Undefined
          /\ req'[r].sid[1] \in RegisteredIds) =>
            /\ req'[r].pc = "handle"
            /\ req'[r].outcome = "REUSE"
            /\ req'[r].forwarded
            /\ req'[r].body = <<>> /\ req'[r].parsed = Undefined
            /\ req'[r].by = "none"
            /\ engines' = engines
            /\ chan' = chan
            /\ transports' = transports
            /\ Cardinality(EntriesFor(transports', req'[r].sid[1])) = 1
            /\ \A i \in EntriesFor(transports', req'[r].sid[1]) :
                  transports'[i].val = req'[r].transport]_vars

\* Witness: a DELETE with a registered id is with the channel registered under
\* that id, which is established and open; no body was read.
C25_Witness ==
    \E r \in Reqs :
        /\ req[r].method = "DELETE" /\ req[r].pc = "handle"
        /\ req[r].outcome = "REUSE" /\ req[r].forwarded
        /\ req[r].body = <<>>
        /\ MapHas(transports, req[r].sid[1])
        /\ MapGet(transports, req[r].sid[1]) = req[r].transport
        /\ chan[req[r].transport].sessionId = req[r].sid
        /\ chan[req[r].transport].state = "open"

\* C26: the order of a CREATE.  In the step of its arrival the engine is made
\* and the channel is constructed with both callbacks, not yet bound, and the
\* exchange waits for the binding; the exchange leaves that wait only when the
\* engine is bound, and only to collect the body; the request is forwarded only
\* from the body collection, to a bound channel.  A channel is established or
\* closed only once it is bound, hence with both callbacks in place, and each
\* such event has its effect on the registry: the new id maps to the channel,
\* the id of a closing channel is no key any more.
C26_Step ==
    /\ \A r \in Reqs :
         (Arrives(r) /\ req'[r].outcome = "CREATE") =>
            LET c == req'[r].transport IN
            /\ req'[r].pc = "connect"
            /\ ~req'[r].forwarded
            /\ req'[r].body = <<>> /\ req'[r].parsed = Undefined
            /\ chan[c].state = "none"
            /\ chan'[c].state = "open"
            /\ chan'[c].engine = engines'
            /\ engines' = engines + 1
            /\ ~chan'[c].connected
            /\ chan'[c].sessionId = Undefined
    /\ \A r \in Reqs :
         (req[r].pc = "connect" /\ req'[r].pc # "connect") =>
            /\ req'[r].pc = "parseBody"
            /\ req'[r].transport = req[r].transport
            /\ ~chan[req[r].transport].connected
            /\ chan'[req[r].transport].connected
            /\ ~req'[r].forwarded
            /\ req'[r].body = <<>> /\ req'[r].parsed = Undefined
    /\ \A r \in Reqs :
         (req[r].outcome = "CREATE" /\ req[r].pc \notin {"new", "done"}
          /\ ~req[r].forwarded /\ req'[r].forwarded) =>
            /\ req[r].pc = "parseBody"
            /\ req'[r].pc = "handle"
            /\ req'[r].transport = req[r].transport
            /\ chan[req[r].transport].connected
    /\ \A c \in Chans :
         (chan[c].sessionId = Undefined /\ chan'[c].sessionId # Undefined) =>
            /\ chan[c].connected
            /\ MapHas(transports', chan'[c].sessionId[1])
            /\ MapGet(transports', chan'[c].sessionId[1]) = c
    /\ \A c \in Chans :
         (chan[c].state # "closed" /\ chan'[c].state = "closed") =>
            /\ chan[c].connected
            /\ chan[c].sessionId # Undefined => ~MapHas(transports', chan[c].sessionId[1])

C26_CreateOrder == [][C26_Step]_vars

\* Witness: a POST took CREATE, its engine was bound, its body was collected
\* and forwarded, and the establishment that followed was registered.
C26_Witness ==
    \E r \in Reqs :
        /\ req[r].method = "POST" /\ req[r].outcome = "CREATE"
        /\ req[r].pc = "handle" /\ req[r].forwarded
        /\ req[r].parsed # Undefined
        /\ chan[req[r].transport].connected
        /\ chan[req[r].transport].state = "open"
        /\ chan[req[r].transport].sessionId # Undefined
        /\ MapGet(transports, chan[req[r].transport].sessionId[1]) = req[r].transport

\* C27: when the handler of a POST that took REUSE forwards the request (the
\* body has been collected), the channel it forwards to is still registered and
\* is not closed, whatever ran while the body was being read.
C27_ReuseForwardedToLiveChannel ==
    [][\A r \in Reqs :
         (req[r].pc = "parseBody" /\ req[r].method = "POST" /\ req[r].outcome = "REUSE"
          /\ ~req[r].forwarded /\ req'[r].forwarded) =>
            /\ req[r].transport \in RegisteredChannels(transports)
            /\ chan[req[r].transport].state # "closed"]_vars

\* C28: whenever stop() invokes close(), it is on a channel that is registered
\* at that moment, and that is the only channel stop() touches in that step; a
\* channel that has been created but is not established is therefore never one
\* stop() invokes close() on.  A call of stop() that has returned does not keep
\* such a channel from being established and registered afterwards.
C28_Step ==
    /\ (StopRuns /\ stopPc' = "awaitClose") =>
          /\ stopCur' \in RegisteredChannels(transports)
          /\ chan[stopCur'].sessionId # Undefined
          /\ stopInvoked' = (IF stopCalls' # stopCalls THEN {} ELSE stopInvoked)
                               \cup {stopCur'}
          /\ \A c \in Chans \ {stopCur'} : chan'[c] = chan[c]
    /\ (StopRuns /\ stopPc' # "awaitClose") =>
          /\ chan' = chan
          /\ stopInvoked' = (IF stopCalls' # stopCalls THEN {} ELSE stopInvoked)
    /\ ~StopRuns => stopInvoked' = stopInvoked
    /\ \A r \in Reqs :
          (/\ stopPc \in {"done", "failed"}
           /\ req[r].pc = "handle" /\ req[r].method = "POST" /\ req[r].parsed # Undefined
           /\ chan[req[r].transport].sessionId = Undefined) => ENABLED Established(r)

C28_StopClosesRegisteredOnly == [][C28_Step]_vars

\* Witness: stop() was called when channel 2 was registered and channel 1,
\* created before it, was not (it was not established yet); stop() has
\* returned without invoking close() on channel 1, which is open and was
\* inserted into the registry after the loop of stop() had ended (the iterator
\* of a Map visits entries inserted while the loop is suspended).
C28_Witness ==
    /\ stopPc = "done"
    /\ stopSnap = {2}
    /\ stopInvoked = {2}
    /\ chan[2].state = "closed"
    /\ chan[1].state = "open"
    /\ chan[1].sessionId # Undefined
    /\ MapGet(transports, chan[1].sessionId[1]) = 1

\* C29: the dispatcher consults no stopped state.  A POST to the endpoint
\* without a recognized session id that arrives when stop() has been called
\* (whether it is still waiting for a close() or has returned or failed) takes
\* CREATE: the factory is invoked and a channel is created for the exchange;
\* and a channel established when stop() has been called is registered under
\* its id.
C29_Step ==
    /\ \A r \in Reqs :
         (/\ Arrives(r)
          /\ stopCalls >= 1
          /\ req'[r].method = "POST" /\ req'[r].path = path
          /\ (req'[r].sid = Undefined \/ req'[r].sid[1] \notin RegisteredIds)) =>
             /\ req'[r].outcome = "CREATE"
             /\ req'[r].pc = "connect"
             /\ engines' = engines + 1
             /\ req'[r].transport = engines'
             /\ chan'[engines'].state = "open"
             /\ chan'[engines'].engine = engines'
    /\ \A c \in Chans :
         (stopCalls >= 1 /\ chan[c].sessionId = Undefined /\ chan'[c].sessionId # Undefined) =>
             /\ MapHas(transports', chan'[c].sessionId[1])
             /\ MapGet(transports', chan'[c].sessionId[1]) = c

C29_CreateAfterStop == [][C29_Step]_vars

\* Witness: stop() was called and returned before start() (the listener has
\* not been closed since), so every request was dispatched after stop() had
\* resolved; a POST without session id took CREATE and its session is
\* registered.
C29_Witness ==
    /\ stopCalls >= 1
    /\ stopPc = "done"
    /\ listener = "listening"
    /\ \E r \in Reqs :
          /\ req[r].method = "POST" /\ req[r].sid = Undefined
          /\ req[r].outcome = "CREATE"
          /\ chan[req[r].transport].state = "open"
          /\ chan[req[r].transport].sessionId # Undefined
          /\ MapGet(transports, chan[req[r].transport].sessionId[1]) = req[r].transport

\* C30: stop() closes channels one after another: a step of stop() invokes
\* close() on at most one channel, and after a close() it goes on (to the next
\* channel or to httpServer.close()) only when the channel of that close() is
\* closed.  If the awaited close() fails, stop() fails there: that step invokes
\* close() on nothing and leaves the listener alone, and as long as stop() is
\* not called again no further close() is invoked and the listener is not closed.
C30_Step ==
    /\ Cardinality(stopInvoked' \ stopInvoked) <= 1
    /\ (stopPc = "awaitClose" /\ stopPc' \in {"awaitClose", "done"} /\ StopRuns) =>
          /\ chan[stopCur].state = "closed"
          /\ stopCur \in stopInvoked
    /\ (stopPc # "failed" /\ stopPc' = "failed") =>
          /\ stopPc = "awaitClose"
          /\ chan[stopCur].state # "closed"
          /\ stopInvoked' = stopInvoked
          /\ chan' = chan
          /\ transports' = transports
          /\ listener' = listener
    /\ (stopPc = "failed" /\ stopCalls' = stopCalls) =>
          /\ stopPc' = "failed"
          /\ stopInvoked' = stopInvoked
          /\ listener = "listening" => listener' = "listening"
          /\ \A c \in Chans : chan[c].state = "open" => chan'[c].state # "closing"

C30_StopFailsAtFirstFailure == [][C30_Step]_vars

\* Witness: stop() was called with two channels registered, invoked close() on
\* the first, and that close() failed: stop() has failed, the second channel is
\* open and registered and close() was not invoked on it, the listener listens.
C30_Witness ==
    /\ stopPc = "failed"
    /\ Cardinality(stopSnap) = 2
    /\ Cardinality(stopInvoked) = 1
    /\ listener = "listening"
    /\ \E c \in stopSnap \ stopInvoked :
          /\ chan[c].state = "open"
          /\ c \in RegisteredChannels(transports)

\* C31: a CREATE whose body JSON.parse rejects.  When the body ends, the engine
\* of the exchange exists and is bound to its one channel (the factory ran
\* once for it, before the body was read); the failing step creates no engine
\* and changes no channel and no registry entry; the channel is not registered
\* and has no session id; the exchange is answered by the gateway and not
\* forwarded.  No POST is ever forwarded with such a body, and a channel
\* without session id is never registered and is forwarded no request but the
\* one that created it: that channel is never forwarded a request.
C31_Step ==
    /\ \A r \in Reqs :
         (/\ req[r].pc = "parseBody" /\ req[r].outcome = "CREATE"
          /\ req'[r] # req[r]
          /\ req'[r].body # <<>> /\ ~JSONparse(req'[r].body).ok) =>
            LET c == req[r].transport IN
            /\ engines' = engines
            /\ chan' = chan
            /\ transports' = transports
            /\ chan[c].engine # 0
            /\ Cardinality({d \in Chans : chan[d].engine = chan[c].engine}) = 1
            /\ chan[c].connected
            /\ chan[c].sessionId = Undefined
            /\ c \notin RegisteredChannels(transports)
            /\ ~req'[r].forwarded
            /\ req'[r].pc = "done"
            /\ req'[r].status = 500 /\ req'[r].by = "gateway"
    /\ \A q \in Reqs :
         (req'[q].forwarded /\ req'[q].method = "POST") =>
            (req'[q].body = <<>> \/ JSONparse(req'[q].body).ok)
    /\ \A c \in Chans :
         chan'[c].sessionId = Undefined =>
            /\ c \notin RegisteredChannels(transports')
            /\ \A q \in Reqs :
                 (req'[q].forwarded /\ req'[q].transport = c) => req'[q].outcome = "CREATE"

C31_CreateBeforeBody == [][C31_Step]_vars

\* Witness: a POST without session id and with the body `[1` created engine and
\* channel 1, was answered 500 by the gateway and not forwarded; the channel is
\* bound, has no id, and the registry is empty.
C31_Witness ==
    \E r \in Reqs :
        /\ req[r].method = "POST" /\ req[r].outcome = "CREATE" /\ req[r].pc = "done"
        /\ req[r].body = <<"[", "1">>
        /\ req[r].status = 500 /\ ~req[r].forwarded
        /\ engines = 1
        /\ chan[req[r].transport].connected
        /\ chan[req[r].transport].sessionId = Undefined
        /\ transports = <<>>

\* C32: every registry entry id -> channel has channel.sessionId = id.  When
\* the closed callback of a channel fires, the registry loses the entries under
\* that channel's own session id and nothing else: every entry of another
\* channel stays as it was.
C32_Step ==
    /\ \A i \in DOMAIN transports' :
         transports'[i].live =>
            chan'[transports'[i].val].sessionId = Some(transports'[i].key)
    /\ \A c \in Chans :
         OncloseFires(c) =>
            /\ DOMAIN transports' = DOMAIN transports
            /\ \A i \in DOMAIN transports :
                 /\ transports'[i].key = transports[i].key
                 /\ transports'[i].val = transports[i].val
                 /\ transports'[i].live =
                       (transports[i].live /\ Some(transports[i].key) # chan[c].sessionId)
                 /\ (transports[i].live /\ transports[i].val # c) => transports'[i].live

C32_EntryMatchesChannelId == [][C32_Step]_vars

\* Witness: two sessions were registered, the channel of the first has closed
\* and its entry is gone, the entry of the second is still there.
C32_Witness ==
    /\ chan[1].state = "closed" /\ chan[1].closedId = Some("s1")
    /\ ~MapHas(transports, "s1")
    /\ chan[2].state = "open"
    /\ MapHas(transports, "s2") /\ MapGet(transports, "s2") = 2

\* C33: the gateway writes a response to an exchange at most once, and only to
\* an exchange no channel has begun to answer.  A step in which the gateway
\* writes is the arrival of the request or happens while no response headers
\* have been sent; it writes status 400, 404, 405 or 500 and ends the exchange.
\* An exchange that has ended is written to no more, and once a channel has
\* sent the headers of an exchange the status and payload stay the channel's.
C33_Step ==
    \A r \in Reqs :
        /\ (req'[r] # req[r] /\ req'[r].by = "gateway") =>
              /\ Arrives(r) \/ (req[r].pc \notin {"new", "done"} /\ req[r].by = "none")
              /\ req'[r].pc = "done"
              /\ req'[r].status \in {400, 404, 405, 500}
              /\ req'[r].data # NoData
        /\ (req[r].pc = "done" /\ ~Arrives(r)) => req'[r] = req[r]
        /\ (req[r].pc \notin {"new", "done"} /\ req[r].by = "channel") =>
              /\ req'[r].by = "channel"
              /\ req'[r].status = req[r].status
              /\ req'[r].data = req[r].data
        /\ req'[r].by = "channel" => req'[r].forwarded

C33_GatewayWritesAtMostOnce == [][C33_Step]_vars

\* Witness: one exchange failed in the channel after the channel had sent the
\* headers, and kept the channel's response; another was rejected with 400 by
\* the gateway and was never with a channel.
C33_Witness ==
    \E r, q \in Reqs :
        /\ req[r].pc = "done" /\ req[r].forwarded /\ req[r].caught
        /\ req[r].by = "channel" /\ req[r].status = 200 /\ req[r].data = EnginePayload
        /\ req[q].pc = "done" /\ ~req[q].forwarded /\ ~req[q].caught
        /\ req[q].by = "gateway" /\ req[q].status = 400

\* C34: membership of a session id in the registry is monotone: absent, then
\* present, then absent.  An id enters the registry only in the step in which
\* a channel is established with it; a channel is established once and keeps
\* its id, and ids of distinct channels differ, so an id enters at most once.
\* An id leaves only when the closed callback of its channel fires, and an id
\* that has left is no key of the registry ever after.
C34_Step ==
    /\ \A k \in AllIds :
         /\ (k \notin RegisteredIds /\ MapHas(transports', k)) =>
               \E c \in Chans : chan[c].sessionId = Undefined /\ chan'[c].sessionId = Some(k)
         /\ (k \in RegisteredIds /\ ~MapHas(transports', k)) =>
               \E c \in Chans : chan[c].sessionId = Some(k) /\ OncloseFires(c)
         /\ (\E c \in Chans : chan'[c].closedId = Some(k)) => ~MapHas(transports', k)
    /\ \A c \in Chans :
         chan[c].sessionId # Undefined => chan'[c].sessionId = chan[c].sessionId
    /\ \A c, d \in Chans :
         (c # d /\ chan'[c].sessionId # Undefined) => chan'[c].sessionId # chan'[d].sessionId
    /\ MapKeys(transports') \subseteq AllIds

C34_MembershipMonotone == [][C34_Step]_vars

\* Witness: s1 was registered and has been removed (its entry is a tombstone);
\* a POST that arrived with s1 afterwards created channel 2, whose own id is
\* registered, and s1 is still absent.
C34_Witness ==
    /\ Len(transports) = 2
    /\ transports[1].key = "s1" /\ ~transports[1].live
    /\ chan[1].closedId = Some("s1")
    /\ transports[2].key = "s2" /\ transports[2].live
    /\ \E r \in Reqs : req[r].sid = Some("s1") /\ req[r].outcome = "CREATE"
                        /\ req[r].transport = 2
    /\ ~MapHas(transports, "s1")

\* C35: a request whose mcp-session-id header is the empty string is handled
\* as one without the header: a POST to the endpoint takes CREATE (engine and
\* channel created, exchange waiting for the binding) and a GET or DELETE is
\* answered 400 with the "Invalid or missing session ID" envelope and reaches
\* no channel.  The empty string is recognized in no registry, not even in the
\* present registry with an entry for the empty string put into it.
C35_Step ==
    /\ \A r \in Reqs :
         (Arrives(r) /\ req'[r].sid = Some("") /\ req'[r].path = path) =>
            /\ req'[r].method = "POST" =>
                  /\ req'[r] = [NoRequest EXCEPT !.method = "POST", !.sid = Some(""),
                                                 !.pc = "connect", !.outcome = "CREATE",
                                                 !.transport = engines + 1]
                  /\ engines' = engines + 1
                  /\ chan'[engines + 1].state = "open"
            /\ req'[r].method \in {"GET", "DELETE"} =>
                  /\ req'[r] = [NoRequest EXCEPT
                                  !.method = req'[r].method, !.sid = Some(""),
                                  !.pc = "done", !.outcome = "REJECT",
                                  !.status = 400, !.by = "gateway",
                                  !.data = [jsonrpc |-> "2.0",
                                            error |-> [code |-> -32000,
                                                       message |-> "Invalid or missing session ID"],
                                            id |-> "null"]]
                  /\ engines' = engines
                  /\ chan' = chan
    /\ \A c \in Chans :
         /\ MapHas(MapSet(transports, "", c), "")
         /\ ~Recognized(MapSet(transports, "", c), Some(""))
         /\ ~Recognized(MapSet(transports, "", c), Undefined)

C35_EmptyHeaderIsAbsent == [][C35_Step]_vars

\* Witness: a POST with the empty header created a session, which is now
\* registered, and a GET with the empty header was answered 400.
C35_Witness ==
    \E r, q \in Reqs :
        /\ req[r].method = "POST" /\ req[r].sid = Some("") /\ req[r].outcome = "CREATE"
        /\ MapValues(transports) = {req[r].transport}
        /\ req[q].method = "GET" /\ req[q].sid = Some("") /\ req[q].status = 400
        /\ req[q].path = path

\* C36 (PokemonSpec): the pokemon-details handler normalizes the captured name
\* by taking the first occurrence: for a list the name it looks up is the
\* first element, whatever follows it, and for a single value it is that value
\* unchanged.  That name is the argument of the lookup (the API is asked for it
\* in lower case), the Pokemon returned is the one of that name, and the "not
\* found" text quotes that name.
C36_FirstOccurrence ==
    (call.pc \in {"fetch", "done"} /\ call.handler = "pokemon-details") =>
        LET first == IF call.name.array THEN Head(call.name.items) ELSE call.name.value IN
        /\ call.name.array => Len(call.name.items) >= 1
        /\ call.pokemonName = first
        /\ call.requested = toLowerCase(first)
        /\ call.pc = "done" =>
              LET content == call.result.contents[1] IN
              /\ Len(call.result.contents) = 1
              /\ content.uri = call.uri.href
              /\ IF call.pokemon = Null
                 THEN content.text = <<"JSON", [error |-> <<"Pokemon \"", first, "\" not found">>]>>
                 ELSE /\ content.text = <<"JSON", call.pokemon[1]>>
                      /\ call.pokemon[1].name = toLowerCase(first)

\* Witness: the capture was the list (Mew, x); the handler looked up Mew, the
\* API was asked for mew and the Pokemon was returned.
C36_Witness ==
    /\ call.pc = "done" /\ call.handler = "pokemon-details"
    /\ call.name.array
    /\ call.name.items = << <<"M", "e", "w">>, <<"x">> >>
    /\ call.pokemonName = <<"M", "e", "w">>
    /\ call.requested = <<"m", "e", "w">>
    /\ call.pokemon # Null
    /\ call.pokemon[1].id = 151

\* C37 (PokemonSpec): when the lookup of either fighter of a battle returned
\* null, the result has isError true and its one text holds, between the
\* heading and the closing advice, one "is not a valid Pokemon" line for each
\* missing fighter, quoting the name as it was passed, fighter 1's line first
\* when both are missing; no score was computed, there is no report and hence
\* no winner.  When neither lookup returned null the result is no error.
C37_MissingFighters ==
    (call.pc = "done" /\ call.handler = "pokemon-battle") =>
        LET missing1 == call.fighter1 = <<>>
            missing2 == call.fighter2 = <<>>
            line1 == <<"\"", call.pokemon1, "\" is not a valid Pokemon">>
            line2 == <<"\"", call.pokemon2, "\" is not a valid Pokemon">>
            expected == IF missing1 /\ missing2 THEN <<line1, line2>>
                        ELSE IF missing1 THEN <<line1>>
                        ELSE <<line2>>
        IN  IF missing1 \/ missing2
            THEN /\ DOMAIN call.result = {"content", "isError"}
                 /\ call.result.isError = TRUE
                 /\ Len(call.result.content) = 1
                 /\ call.result.content[1].type = "text"
                 /\ call.result.content[1].text =
                       << <<"Battle cannot proceed!">>, <<>> >> \o expected \o
                       << <<>>, <<"Please provide valid Pokemon names (e.g., pikachu, charizard, mewtwo).">> >>
                 /\ call.errors = expected
                 /\ call.score1 = <<>> /\ call.score2 = <<>>
                 /\ call.battleReport = <<>>
            ELSE /\ DOMAIN call.result = {"content"}
                 /\ call.errors = <<>>
                 /\ call.battleReport # <<>>

\* Witness: both fighters are missing (x is unknown, and the API failed for
\* Mew): two messages, fighter 1's first.
C37_Witness ==
    /\ call.pc = "done" /\ call.handler = "pokemon-battle"
    /\ call.pokemon1 = <<"x">> /\ call.pokemon2 = <<"M", "e", "w">>
    /\ call.fighter1 = <<>> /\ call.fighter2 = <<>>
    /\ call.result.isError
    /\ Len(call.errors) = 2
    /\ call.errors[1][2] = <<"x">> /\ call.errors[2][2] = <<"M", "e", "w">>

\* C38 (PokemonSpec): in a battle both of whose fighters were found, with
\* score1 and score2 the two battle scores: the winner is fighter 1 exactly
\* when score1 > score2 and fighter 2 otherwise (also when the scores are
\* equal), the loser is the other fighter; winnerScore is the larger and
\* loserScore the smaller score; margin = winnerScore - loserScore >= 0; and
\* wasClose holds exactly when the scores differ by less than 50, with
\* victoryType "narrow victory" then and "decisive victory" otherwise.
C38_BattleResult ==
    (call.pc = "done" /\ call.handler = "pokemon-battle"
     /\ call.fighter1 # <<>> /\ call.fighter2 # <<>>) =>
        LET score1 == call.score1[1]
            score2 == call.score2[1]
            b == call.battleReport[1].battle
            r == call.battleReport[1].result
            diff == IF score1 >= score2 THEN score1 - score2 ELSE score2 - score1
        IN  /\ score1 \in Int /\ score2 \in Int
            /\ b.fighter1.battleScore = score1 /\ b.fighter2.battleScore = score2
            /\ b.fighter1.name = toUpperCase(call.fighter1[1].name)
            /\ b.fighter2.name = toUpperCase(call.fighter2[1].name)
            /\ r.winner = (IF score1 > score2 THEN b.fighter1.name ELSE b.fighter2.name)
            /\ r.loser = (IF score1 > score2 THEN b.fighter2.name ELSE b.fighter1.name)
            /\ r.winnerScore = (IF score1 >= score2 THEN score1 ELSE score2)
            /\ r.loserScore = (IF score1 >= score2 THEN score2 ELSE score1)
            /\ r.winnerScore >= r.loserScore
            /\ (score1 > score2) <=> (r.winnerScore = score1 /\ r.winnerScore # score2)
            /\ r.margin = r.winnerScore - r.loserScore
            /\ r.margin >= 0
            /\ r.margin = diff
            /\ r.wasClose <=> (diff < 50)
            /\ r.victoryType = (IF diff < 50 THEN "narrow victory" ELSE "decisive victory")

\* Witness: mew against celebi with equal scores: fighter 2 wins, margin 0,
\* a narrow victory.
C38_Witness ==
    /\ call.pc = "done" /\ call.handler = "pokemon-battle"
    /\ call.pokemon1 = <<"m", "e", "w">> /\ call.pokemon2 = <<"c", "e", "l", "e", "b", "i">>
    /\ call.score1 # <<>> /\ call.score1 = call.score2
    /\ call.battleReport[1].result.winner = <<"C", "E", "L", "E", "B", "I">>
    /\ call.battleReport[1].result.loser = <<"M", "E", "W">>
    /\ call.battleReport[1].result.margin = 0
    /\ call.battleReport[1].result.victoryType = "narrow victory"

\* A decisive victory at the boundary: the scores differ by exactly 50 and
\* fighter 1 wins.
C38_Boundary ==
    /\ call.pc = "done" /\ call.handler = "pokemon-battle"
    /\ call.score1 # <<>>
    /\ call.score1[1] = call.score2[1] + 50
    /\ call.battleReport[1].result.winner = <<"M", "E", "W">>
    /\ call.pokemon2 = <<"c", "e", "l", "e", "b", "i">>
    /\ ~call.battleReport[1].result.wasClose

====
